---- MODULE Spec2Model ----
(***************************************************************************)
(* A model of keywork's file-based state reader (keywork/tui/state.py) and  *)
(* of its sandbox launcher (keywork/tui/sandbox.py).                       *)
(*                                                                         *)
(* The program keeps no state of its own: its state is the filesystem      *)
(* below agents/goals and the host it runs on.  The variables are that     *)
(* filesystem, the host and the result of the last call.  File contents    *)
(* are strings, and the reader's regular expressions are translated        *)
(* character for character.                                                *)
(***************************************************************************)
EXTENDS Integers, Sequences, FiniteSets, TLC

VARIABLES
    rootExists,   \* GOALS_DIR exists
    listing,      \* the entries of GOALS_DIR in the order iterdir() yields them
    dirs,         \* the entries of GOALS_DIR that are directories
    files,        \* "<dir>/<file>" -> text, for the files that exist
    call,         \* the last reader call: [op, arg]
    ret,          \* what that call returned: [raised, value]
    host          \* the host: container runtime, platform, credentials,
                  \* keychain, environment, clock, and the checks of the last
                  \* validate_credentials call

vars == <<rootExists, listing, dirs, files, call, ret, host>>

----------------------------------------------------------------------------
(* Characters and strings.                                                 *)

Ch(s, i) == SubSeq(s, i, i)

From(s, i) == SubSeq(s, i, Len(s))

Digits == {"0", "1", "2", "3", "4", "5", "6", "7", "8", "9"}

Letters ==
    {"a", "b", "c", "d", "e", "f", "g", "h", "i", "j", "k", "l", "m",
     "n", "o", "p", "q", "r", "s", "t", "u", "v", "w", "x", "y", "z",
     "A", "B", "C", "D", "E", "F", "G", "H", "I", "J", "K", "L", "M",
     "N", "O", "P", "Q", "R", "S", "T", "U", "V", "W", "X", "Y", "Z"}

\* \w of the re module, on the characters the documents use
WordChars == Letters \cup Digits \cup {"_"}

\* \s of the re module and str.strip's whitespace
Spaces == {" ", "\t", "\n", "\r", "\f"}

StartsAt(s, i, p) == i + Len(p) - 1 <= Len(s) /\ SubSeq(s, i, i + Len(p) - 1) = p

startswith(s, p) == StartsAt(s, 1, p)

\* the first index >= i whose character is in (or, with inSet FALSE, not in) cs;
\* Len(s) + 1 when there is none
Scan(s, i, cs, inSet) ==
    IF i > Len(s) THEN Len(s) + 1
    ELSE CHOOSE k \in i..(Len(s) + 1) :
             /\ k = Len(s) + 1 \/ (Ch(s, k) \in cs) = inSet
             /\ \A j \in i..(k - 1) : (Ch(s, j) \in cs) # inSet

\* the last index <= i whose character is not in cs; 0 when there is none
ScanBack(s, i, cs) ==
    IF i < 1 THEN 0
    ELSE CHOOSE k \in 0..i :
             /\ k = 0 \/ Ch(s, k) \notin cs
             /\ \A j \in (k + 1)..i : Ch(s, j) \in cs

strip(s) ==
    LET a == Scan(s, 1, Spaces, FALSE)
        b == ScanBack(s, Len(s), Spaces)
    IN  IF a > b THEN "" ELSE SubSeq(s, a, b)

lstrip(s) == From(s, Scan(s, 1, Spaces, FALSE))

RECURSIVE splitlines(_)
splitlines(s) ==
    IF s = "" THEN <<>>
    ELSE LET n == Scan(s, 1, {"\n"}, TRUE)
         IN  <<SubSeq(s, 1, n - 1)>> \o splitlines(From(s, n + 1))

\* the positions where ^ matches under re.MULTILINE
LineStarts(s) == {1} \cup {i + 1 : i \in {k \in 1..Len(s) : Ch(s, k) = "\n"}}

\* \b at the gap before index i
WordBoundary(s, i) ==
    LET before == i > 1 /\ Ch(s, i - 1) \in WordChars
        after == i <= Len(s) /\ Ch(s, i) \in WordChars
    IN  before # after

\* Optional values: None is <<>>, a value v is <<v>>
None == <<>>
Some(v) == <<v>>

Return(v) == [raised |-> FALSE, value |-> v]
Raise(e) == [raised |-> TRUE, value |-> e]

----------------------------------------------------------------------------
(* The filesystem the reader looks at.                                     *)

Join(d, f) == d \o "/" \o f

exists(p) == p \in DOMAIN files

read_text(p) == files[p]

NoFiles == [p \in {} |-> ""]

\* a host of which the reader uses nothing
NoHost == [docker |-> "ok", system |-> "Linux", credentials |-> None,
           keychain |-> [outcome |-> "missing", returncode |-> 0, stdout |-> None],
           environ |-> [n \in {} |-> ""], now_ms |-> 0, checked |-> <<>>]

----------------------------------------------------------------------------
(* The task checklist (IMPLEMENTATION.md).                                 *)

\* len(re.findall("^" + prefix, content, re.MULTILINE)) for a literal prefix
CountLinePrefix(content, prefix) ==
    Cardinality({i \in LineStarts(content) : StartsAt(content, i, prefix)})

\* count_tasks with the done pattern not anchored at line start
count_tasks_unanchored(impl_path) ==
    IF ~exists(impl_path) THEN <<0, 0, 0, 0>>
    ELSE LET content == read_text(impl_path)
         IN  <<CountLinePrefix(content, "- ["),
               Cardinality({i \in 1..Len(content) : StartsAt(content, i, "- [x]")}),
               CountLinePrefix(content, "- [BLOCKED"),
               CountLinePrefix(content, "- [REVIEW")>>

\* (total, completed, blocked, review)
count_tasks(impl_path) ==
    IF ~exists(impl_path) THEN <<0, 0, 0, 0>>
    ELSE LET content == read_text(impl_path)
         IN  <<CountLinePrefix(content, "- ["),
               CountLinePrefix(content, "- [x]"),
               CountLinePrefix(content, "- [BLOCKED"),
               CountLinePrefix(content, "- [REVIEW")>>

\* re.search(r"\bT(\d+)", line): the first T at a word boundary that digits follow
RECURSIVE ParseTaskIdFrom(_, _)
ParseTaskIdFrom(line, i) ==
    IF i > Len(line) THEN None
    ELSE IF /\ Ch(line, i) = "T"
            /\ WordBoundary(line, i)
            /\ i < Len(line)
            /\ Ch(line, i + 1) \in Digits
         THEN Some(SubSeq(line, i, Scan(line, i + 1, Digits, FALSE) - 1))
         ELSE ParseTaskIdFrom(line, i + 1)

_parse_task_id(line) == ParseTaskIdFrom(line, 1)

\* re.findall(r"T\d+", s): the matches from index i on, left to right, not overlapping
RECURSIVE FindTaskIds(_, _)
FindTaskIds(s, i) ==
    IF i > Len(s) THEN <<>>
    ELSE IF Ch(s, i) = "T" /\ i < Len(s) /\ Ch(s, i + 1) \in Digits
         THEN LET e == Scan(s, i + 1, Digits, FALSE)
              IN  <<SubSeq(s, i, e - 1)>> \o FindTaskIds(s, e)
         ELSE FindTaskIds(s, i + 1)

\* the done pattern without its closing \b
DoneLineFor_noBoundary(dep_id, content) ==
    \E i \in LineStarts(content) : StartsAt(content, i, "- [x] " \o dep_id)

\* re.search(rf"^- \[x\] {dep_id}\b", content, re.MULTILINE)
DoneLineFor(dep_id, content) ==
    \E i \in LineStarts(content) :
        LET p == "- [x] " \o dep_id
        IN  StartsAt(content, i, p) /\ WordBoundary(content, i + Len(p))

_are_depends_satisfied(depends_line, content) ==
    LET dep_ids == FindTaskIds(depends_line, 1)
    IN  \A k \in 1..Len(dep_ids) : DoneLineFor(dep_ids[k], content)

AttentionItem(goal_name, item_type, title, task_id, question_id) ==
    [goal_name |-> goal_name, item_type |-> item_type, title |-> title,
     task_id |-> task_id, question_id |-> question_id]

\* range(i + 1, min(i + 10, len(lines))) of load_review_tasks
LOOKAHEAD == 10

\* group(1) of re.match(r"^- \[REVIEW:\s*(.+?)\]", line), None without a match:
\* \s* gives whitespace back until a "]" follows at least one character
ReviewMatch(line) ==
    IF ~startswith(line, "- [REVIEW:") THEN None
    ELSE LET p == Len("- [REVIEW:") + 1
             w == Scan(line, p, Spaces, FALSE)
             starts == {s0 \in p..w : /\ s0 <= Len(line)
                                      /\ Scan(line, s0 + 1, {"]"}, TRUE) <= Len(line)}
         IN  IF starts = {} THEN None
             ELSE LET s0 == CHOOSE x \in starts : \A y \in starts : y <= x
                  IN  Some(SubSeq(line, s0, Scan(line, s0 + 1, {"]"}, TRUE) - 1))

\* group(1) of re.match(r"\s+-\s+Depends:\s*(.*)", sub), None without a match
DependsMatch(sub) ==
    LET a == Scan(sub, 1, Spaces, FALSE)
        b == Scan(sub, a + 1, Spaces, FALSE)
    IN  IF /\ a >= 2
           /\ StartsAt(sub, a, "-")
           /\ b >= a + 2
           /\ StartsAt(sub, b, "Depends:")
        THEN Some(From(sub, Scan(sub, b + Len("Depends:"), Spaces, FALSE)))
        ELSE None

\* a look-ahead loop that reads past the next task line
RECURSIVE DependsSatisfiedFrom_pastTasks(_, _, _, _)
DependsSatisfiedFrom_pastTasks(lines, j, last, content) ==
    IF j > last THEN TRUE
    ELSE LET dep_match == DependsMatch(lines[j])
         IN  IF dep_match # None
             THEN _are_depends_satisfied(dep_match[1], content)
             ELSE DependsSatisfiedFrom_pastTasks(lines, j + 1, last, content)

\* the look-ahead loop of load_review_tasks over lines[j..last]
RECURSIVE DependsSatisfiedFrom(_, _, _, _)
DependsSatisfiedFrom(lines, j, last, content) ==
    IF j > last THEN TRUE
    ELSE IF startswith(lines[j], "- [") THEN TRUE
    ELSE LET dep_match == DependsMatch(lines[j])
         IN  IF dep_match # None
             THEN _are_depends_satisfied(dep_match[1], content)
             ELSE DependsSatisfiedFrom(lines, j + 1, last, content)

\* a look-ahead that reads on to the end of the document
LookAheadEnd_toEnd(i, n) == n

\* the last line index (from 1) the look-ahead of the task at line i reads
LookAheadEnd(i, n) == IF i - 1 + LOOKAHEAD < n THEN i - 1 + LOOKAHEAD ELSE n

RECURSIVE ReviewItemsFrom(_, _, _, _)
ReviewItemsFrom(goal_name, lines, i, content) ==
    IF i > Len(lines) THEN <<>>
    ELSE LET m == ReviewMatch(lines[i])
             rest == ReviewItemsFrom(goal_name, lines, i + 1, content)
         IN  IF m = None THEN rest
             ELSE IF DependsSatisfiedFrom(lines, i + 1, LookAheadEnd(i, Len(lines)), content)
                  THEN <<AttentionItem(goal_name, "review", strip(m[1]),
                                       _parse_task_id(lines[i]), None)>> \o rest
                  ELSE rest

load_review_tasks(goal_name) ==
    LET impl_path == Join(goal_name, "IMPLEMENTATION.md")
    IN  IF ~exists(impl_path) THEN <<>>
        ELSE LET content == read_text(impl_path)
             IN  ReviewItemsFrom(goal_name, splitlines(content), 1, content)

----------------------------------------------------------------------------
(* Reader calls: each records the call and what it returned.               *)

NoCall == [op |-> "none", arg |-> <<>>]

Called(op, arg, result) ==
    /\ call' = [op |-> op, arg |-> arg]
    /\ ret' = result
    /\ UNCHANGED <<rootExists, listing, dirs, files, host>>

\* a write to the filesystem: the last result no longer describes it
Written ==
    /\ call' = NoCall
    /\ ret' = Return(<<>>)
    /\ UNCHANGED host

CountTasks(path) ==
    Called("count_tasks", <<path>>, Return(count_tasks(path)))

LoadReviewTasks(g) ==
    Called("load_review_tasks", <<g>>, Return(load_review_tasks(g)))

AreDependsSatisfied(g, depends_line) ==
    /\ exists(Join(g, "IMPLEMENTATION.md"))
    /\ Called("_are_depends_satisfied", <<g, depends_line>>,
              Return(_are_depends_satisfied(depends_line,
                                            read_text(Join(g, "IMPLEMENTATION.md")))))

----------------------------------------------------------------------------
(* SpecChecklist: one goal whose checklist grows a piece at a time, read   *)
(* by count_tasks, load_review_tasks and _are_depends_satisfied.           *)

\* the most pieces a checklist is made of
MaxPieces == 3

\* s repeated n times
RECURSIVE Repeat(_, _)
Repeat(s, n) ==
    IF n = 0 THEN ""
    ELSE LET half == Repeat(s, n \div 2)
         IN  half \o half \o (IF n % 2 = 1 THEN s ELSE "")

NoteLine == "  - note"

\* the number of lines of a run of notes that fills the look-ahead window
NoteRunLen == LOOKAHEAD - 1

NoteRun == Repeat(NoteLine \o "\n", NoteRunLen)

ChecklistPieces ==
    {"- [x] T1: parser\n",
     "- [x] T10: docs\n",
     "- [ ] T5: cli\n",
     "- [BLOCKED: env] T4: deploy\n",
     "- [REVIEW: check api] T2: api\n",
     "- [REVIEW: ui pass] T3: ui\n",
     "  - Depends: T1\n",
     "  - Depends: T10, T4\n",
     "  - Depends: none\n",
     "  - [x] T1: substep\n",
     NoteLine \o "\n",
     NoteRun}

DependsLines == {"", "T1", "T1, T10", "after T4 and T10", "none"}

Goal == "alpha"

ImplPath == Join(Goal, "IMPLEMENTATION.md")

\* the texts made of at most n pieces
RECURSIVE TextsOf(_, _)
TextsOf(pieces, n) ==
    IF n = 0 THEN {""}
    ELSE LET shorter == TextsOf(pieces, n - 1)
         IN  shorter \cup {t \o p : t \in shorter, p \in pieces}

\* files with path holding text
WithFile(path, text) ==
    [p \in DOMAIN files \cup {path} |-> IF p = path THEN text ELSE files[p]]

InitChecklist ==
    /\ rootExists = TRUE
    /\ listing = <<Goal>>
    /\ dirs = {Goal}
    /\ \E text \in TextsOf(ChecklistPieces, MaxPieces) :
           files = [p \in {ImplPath} |-> text]
    /\ call = NoCall
    /\ ret = Return(<<>>)
    /\ host = NoHost

NextChecklist ==
    \/ CountTasks(ImplPath)
    \/ LoadReviewTasks(Goal)
    \/ \E d \in DependsLines : AreDependsSatisfied(Goal, d)

SpecChecklist == InitChecklist /\ [][NextChecklist]_vars

----------------------------------------------------------------------------
(* What the checklist document says, read off its lines.                   *)

ChecklistLines == IF exists(ImplPath) THEN splitlines(read_text(ImplPath)) ELSE <<>>

IsTaskLine(l) == startswith(l, "- [")

\* done, blocked, review or pending, by what follows the bracket
StatusOf(l) ==
    IF StartsAt(l, 4, "x]") THEN "done"
    ELSE IF StartsAt(l, 4, "BLOCKED") THEN "blocked"
    ELSE IF StartsAt(l, 4, "REVIEW") THEN "review"
    ELSE "pending"

TasksWithStatus(lines, st) ==
    {i \in 1..Len(lines) : IsTaskLine(lines[i]) /\ StatusOf(lines[i]) = st}

\* the task identifiers (T and the digits after it) occurring in s
IdsIn(s) ==
    {SubSeq(s, a, b) : <<a, b>> \in
        {ab \in (1..Len(s)) \X (1..Len(s)) :
            /\ ab[1] < ab[2]
            /\ Ch(s, ab[1]) = "T"
            /\ \A k \in (ab[1] + 1)..ab[2] : Ch(s, k) \in Digits
            /\ (ab[2] = Len(s) \/ Ch(s, ab[2] + 1) \notin Digits)}}

\* line l marks task id done: "- [x] " and the identifier, and the identifier ends there
IsDoneLineOf(l, id) ==
    LET p == "- [x] " \o id
    IN  /\ startswith(l, p)
        /\ (Len(l) = Len(p) \/ Ch(l, Len(p) + 1) \notin WordChars)

AllDone(lines, ids) ==
    \A id \in ids : \E j \in 1..Len(lines) : IsDoneLineOf(lines[j], id)

IsReviewTask(l) == ReviewMatch(l) # None

IsDependsSubLine(l) == DependsMatch(l) # None

\* the Depends sub-lines of the task at line i: after it, before the next
\* task line, and no further than `reach` lines away
DependsSubLines(lines, i, reach) ==
    {j \in (i + 1)..Len(lines) :
        /\ j <= i + reach
        /\ IsDependsSubLine(lines[j])
        /\ \A k \in (i + 1)..(j - 1) : ~IsTaskLine(lines[k])}

Min(S) == CHOOSE x \in S : \A y \in S : x <= y

Actionable(lines, i, reach) ==
    LET D == DependsSubLines(lines, i, reach)
    IN  D = {} \/ AllDone(lines, IdsIn(DependsMatch(lines[Min(D)])[1]))

\* the review items of the actionable review tasks, in document order
RECURSIVE ActionableReviewsFrom(_, _, _)
ActionableReviewsFrom(lines, i, reach) ==
    IF i > Len(lines) THEN <<>>
    ELSE IF IsReviewTask(lines[i]) /\ Actionable(lines, i, reach)
         THEN <<AttentionItem(Goal, "review", strip(ReviewMatch(lines[i])[1]),
                              _parse_task_id(lines[i]), None)>>
              \o ActionableReviewsFrom(lines, i + 1, reach)
         ELSE ActionableReviewsFrom(lines, i + 1, reach)

----------------------------------------------------------------------------
(* Claims on the checklist.                                                *)

\* C1 as stated: load_review_tasks returns exactly the review tasks whose
\* Depends sub-line, wherever it sits in the task's block, names only done
\* tasks (a task with no Depends sub-line is returned).
C1_AnyDependsSubLineGates ==
    call.op = "load_review_tasks" =>
        ret = Return(ActionableReviewsFrom(ChecklistLines, 1, Len(ChecklistLines)))

\* C1 amended: load_review_tasks returns, in document order, exactly the
\* review tasks for which the first Depends sub-line among the 9 lines after
\* the task line and before the next task line names only done tasks, or for
\* which there is no such sub-line.
C1_ReviewReturnedIffDependsDone ==
    call.op = "load_review_tasks" =>
        ret = Return(ActionableReviewsFrom(ChecklistLines, 1, LOOKAHEAD - 1))

\* C1 witness: a review task held back by a pending dependency next to one
\* that is returned
C1_Witness ==
    /\ call.op = "load_review_tasks"
    /\ Len(ret.value) = 1
    /\ \E i \in 1..Len(ChecklistLines) :
          /\ IsReviewTask(ChecklistLines[i])
          /\ ~Actionable(ChecklistLines, i, LOOKAHEAD - 1)

\* C2: _are_depends_satisfied answers whether every identifier of the Depends
\* line has a line "- [x] <id>" at line start, the identifier ending there.
C2_DependsSatisfiedIffAllDone ==
    call.op = "_are_depends_satisfied" =>
        ret = Return(AllDone(ChecklistLines, IdsIn(call.arg[2])))

\* C2 witness: T1 is asked for while only T10 and an indented T1 are done
C2_Witness ==
    /\ call.op = "_are_depends_satisfied"
    /\ call.arg[2] = "T1"
    /\ ret = Return(FALSE)
    /\ \E j \in 1..Len(ChecklistLines) : IsDoneLineOf(ChecklistLines[j], "T10")
    /\ \E j \in 1..Len(ChecklistLines) : ChecklistLines[j] = "  - [x] T1: substep"

\* C3: the counts of count_tasks partition the task lines: every task line is
\* done, blocked, review or pending and in one of them only, so that
\* completed + blocked + review <= total and the rest is the pending tasks;
\* counting again without a write gives the same counts.
C3_CountsPartitionTasks ==
    [][call'.op = "count_tasks" =>
         LET lines == ChecklistLines
             total == ret'.value[1]
             completed == ret'.value[2]
             blocked == ret'.value[3]
             review == ret'.value[4]
         IN  /\ total = Cardinality({i \in 1..Len(lines) : IsTaskLine(lines[i])})
             /\ completed = Cardinality(TasksWithStatus(lines, "done"))
             /\ blocked = Cardinality(TasksWithStatus(lines, "blocked"))
             /\ review = Cardinality(TasksWithStatus(lines, "review"))
             /\ completed + blocked + review <= total
             /\ total - completed - blocked - review
                    = Cardinality(TasksWithStatus(lines, "pending"))
             /\ (call.op = "count_tasks" => ret' = ret)]_vars

\* C3 witness: counts with a task of every status
C3_Witness ==
    /\ call.op = "count_tasks"
    /\ ret.value[1] = 3
    /\ ret.value[2] = 1
    /\ ret.value[4] = 1
    /\ ret.value[1] - ret.value[2] - ret.value[3] - ret.value[4] = 1

----------------------------------------------------------------------------
(* Key: value records (state.md) and the YAML subset (config.yaml).        *)

EmptyDict == [k \in {} |-> ""]

\* a mapping that keeps the value a key already has
DictSet_keepFirst(d, key, value) ==
    [k \in DOMAIN d \cup {key} |-> IF k \in DOMAIN d THEN d[k] ELSE value]

DictSet(d, key, value) ==
    [k \in DOMAIN d \cup {key} |-> IF k = key THEN value ELSE d[k]]

\* dict.get(key, default)
get(d, key, default) == IF key \in DOMAIN d THEN d[key] ELSE default

\* line.partition(":"): the text before and after the first colon
BeforeColon(line) == SubSeq(line, 1, Scan(line, 1, {":"}, TRUE) - 1)
AfterColon(line) == From(line, Scan(line, 1, {":"}, TRUE) + 1)

HasColon(line) == Scan(line, 1, {":"}, TRUE) <= Len(line)

\* the loop of parse_state_md without the test for "#"
RECURSIVE ParseStateLines_commentsKept(_, _, _)
ParseStateLines_commentsKept(lines, i, result) ==
    IF i > Len(lines) THEN result
    ELSE LET line == strip(lines[i])
         IN  IF HasColon(line)
             THEN ParseStateLines_commentsKept(lines, i + 1,
                      DictSet(result, strip(BeforeColon(line)), strip(AfterColon(line))))
             ELSE ParseStateLines_commentsKept(lines, i + 1, result)

RECURSIVE ParseStateLines(_, _, _)
ParseStateLines(lines, i, result) ==
    IF i > Len(lines) THEN result
    ELSE LET line == strip(lines[i])
         IN  IF HasColon(line) /\ ~startswith(line, "#")
             THEN ParseStateLines(lines, i + 1,
                      DictSet(result, strip(BeforeColon(line)), strip(AfterColon(line))))
             ELSE ParseStateLines(lines, i + 1, result)

parse_state_md(path) ==
    IF ~exists(path) THEN EmptyDict
    ELSE ParseStateLines(splitlines(read_text(path)), 1, EmptyDict)

\* config values: a string or a list of strings
Str(v) == <<"str", v>>
List(items) == <<"list", items>>
IsList(v) == v[1] = "list"

\* a nested key stored under the child's name alone
NestedKey_flat(current_key, key) == key

\* f"{current_key}.{key}"
NestedKey(current_key, key) == current_key \o "." \o key

\* a list item taken at the indent of its parent too
ItemAccepted_atParentIndent(st, indent) ==
    st.current_key # None /\ indent >= st.current_indent

\* current_key is not None and indent > current_indent
ItemAccepted(st, indent) ==
    st.current_key # None /\ indent > st.current_indent

\* the loop of parse_config_yaml; st is [result, current_key, current_indent],
\* current_key an optional value
ConfigStep(st, line) ==
    LET stripped == strip(line)
        indent == Len(line) - Len(lstrip(line))
        result == st.result
    IN  IF stripped = "" \/ startswith(stripped, "#") THEN st
        ELSE IF startswith(stripped, "- ")
        THEN IF ItemAccepted(st, indent)
             THEN LET key == st.current_key[1]
                      item_value == strip(From(stripped, 3))
                      r1 == IF key \notin DOMAIN result
                            THEN DictSet(result, key, List(<<>>))
                            ELSE result
                      r2 == IF IsList(r1[key])
                            THEN DictSet(r1, key, List(Append(r1[key][2], item_value)))
                            ELSE r1
                  IN  [st EXCEPT !.result = r2]
             ELSE st
        ELSE IF HasColon(stripped)
        THEN LET key == strip(BeforeColon(stripped))
                 value == strip(AfterColon(stripped))
             IN  IF value # ""
                 THEN IF indent = 0
                      THEN [st EXCEPT !.result = DictSet(result, key, Str(value))]
                      ELSE IF st.current_key # None
                      THEN [st EXCEPT !.result =
                               DictSet(result, NestedKey(st.current_key[1], key), Str(value))]
                      ELSE st
                 ELSE [st EXCEPT !.current_key = Some(key), !.current_indent = indent]
        ELSE st

RECURSIVE ConfigLoop(_, _, _)
ConfigLoop(lines, i, st) ==
    IF i > Len(lines) THEN st
    ELSE ConfigLoop(lines, i + 1, ConfigStep(st, lines[i]))

parse_config_yaml(path) ==
    IF ~exists(path) THEN EmptyDict
    ELSE ConfigLoop(splitlines(read_text(path)), 1,
                    [result |-> EmptyDict, current_key |-> None, current_indent |-> 0]).result

----------------------------------------------------------------------------
(* One goal's snapshot.                                                    *)

\* line[:120] of get_prd_summary
SUMMARY_LENGTH == 120

RECURSIVE PrdSummaryFrom(_, _)
PrdSummaryFrom(lines, i) ==
    IF i > Len(lines) THEN ""
    ELSE LET line == strip(lines[i])
         IN  IF line # "" /\ ~startswith(line, "#") /\ ~startswith(line, "<!--")
             THEN SubSeq(line, 1, IF Len(line) < SUMMARY_LENGTH THEN Len(line)
                                  ELSE SUMMARY_LENGTH)
             ELSE PrdSummaryFrom(lines, i + 1)

get_prd_summary(prd_path) ==
    IF ~exists(prd_path) THEN ""
    ELSE PrdSummaryFrom(splitlines(read_text(prd_path)), 1)

\* Floats are kept as decimals m * 10^e, e <= 0, with no trailing zero in m.
DigitValue(c) == Scan("0123456789", 1, {c}, TRUE) - 1

RECURSIVE IntOf(_)
IntOf(ds) == IF ds = "" THEN 0
             ELSE 10 * IntOf(SubSeq(ds, 1, Len(ds) - 1)) + DigitValue(Ch(ds, Len(ds)))

RECURSIVE Decimal(_, _)
Decimal(m, e) ==
    IF m = 0 THEN [m |-> 0, e |-> 0]
    ELSE IF e < 0 /\ m % 10 = 0 THEN Decimal(m \div 10, e + 1)
    ELSE [m |-> m, e |-> e]

\* float(s) on the texts written as [sign] digits [. digits]; None stands for
\* ValueError.  The exponent, inf, nan and underscore forms float() also
\* reads are not among the texts the specifications write.
float(s) ==
    LET t == strip(s)
        signed == t # "" /\ Ch(t, 1) \in {"+", "-"}
        body == IF signed THEN From(t, 2) ELSE t
        dot == Scan(body, 1, {"."}, TRUE)
        whole == SubSeq(body, 1, dot - 1)
        frac == From(body, dot + 1)
        digitsOnly(x) == \A k \in 1..Len(x) : Ch(x, k) \in Digits
    IN  IF /\ digitsOnly(whole)
           /\ digitsOnly(frac)
           /\ Len(whole) + Len(frac) > 0
        THEN LET m == IntOf(whole \o frac)
             IN  Some(Decimal(IF signed /\ Ch(t, 1) = "-" THEN 0 - m ELSE m, 0 - Len(frac)))
        ELSE None

GoalState(name, status, priority, last_activity, completed_tasks, total_tasks, blocked_tasks, review_tasks, total_cost_usd, has_replan, has_feedback, prd_summary, repo_name, path) ==
    [name |-> name, status |-> status, priority |-> priority,
     last_activity |-> last_activity, completed_tasks |-> completed_tasks,
     total_tasks |-> total_tasks, blocked_tasks |-> blocked_tasks,
     review_tasks |-> review_tasks, total_cost_usd |-> total_cost_usd,
     has_replan |-> has_replan, has_feedback |-> has_feedback,
     prd_summary |-> prd_summary, repo_name |-> repo_name, path |-> path]

\* str(n) of a count
RECURSIVE str(_)
str(n) == IF n < 10 THEN Ch("0123456789", n + 1)
          ELSE str(n \div 10) \o Ch("0123456789", (n % 10) + 1)

\* progress with its two counts exchanged
progress_swapped(self) ==
    IF self.total_tasks = 0 THEN "no tasks"
    ELSE str(self.total_tasks) \o "/" \o str(self.completed_tasks)

\* GoalState.progress
progress(self) ==
    IF self.total_tasks = 0 THEN "no tasks"
    ELSE str(self.completed_tasks) \o "/" \o str(self.total_tasks)

\* the result of load_goal: the snapshot, or the ValueError of float()
load_goal(goal_dir) ==
    LET name == goal_dir
        state_data == parse_state_md(Join(goal_dir, "state.md"))
        counts == count_tasks(Join(goal_dir, "IMPLEMENTATION.md"))
        cost == float(get(state_data, "total_cost_usd", "0"))
    IN  IF cost = None THEN Raise("ValueError")
        ELSE Return(GoalState(name,
                              get(state_data, "status", "created"),
                              get(state_data, "priority", "normal"),
                              get(state_data, "last_activity", ""),
                              counts[2], counts[1], counts[3], counts[4],
                              cost[1],
                              exists(Join(goal_dir, ".replan")),
                              exists(Join(goal_dir, "feedback.md")),
                              get_prd_summary(Join(goal_dir, "prd.md")),
                              get(state_data, "repo", ""),
                              goal_dir))

----------------------------------------------------------------------------
(* All goals, and what needs attention.                                    *)

\* the characters of entry names, in code-point order
NameChars == "-.0123456789ABCDEFGHIJKLMNOPQRSTUVWXYZ_abcdefghijklmnopqrstuvwxyz"

\* the rank of c among them: it orders as ord(c) does
CodePoint(c) == Scan(NameChars, 1, {c}, TRUE)

\* a < b for Python strings
RECURSIVE StrLess(_, _)
StrLess(a, b) ==
    IF b = "" THEN FALSE
    ELSE IF a = "" THEN TRUE
    ELSE IF Ch(a, 1) = Ch(b, 1) THEN StrLess(From(a, 2), From(b, 2))
    ELSE CodePoint(Ch(a, 1)) < CodePoint(Ch(b, 1))

RECURSIVE Insert(_, _)
Insert(x, seq) ==
    IF seq = <<>> THEN <<x>>
    ELSE IF StrLess(x, Head(seq)) THEN <<x>> \o seq
    ELSE <<Head(seq)>> \o Insert(x, Tail(seq))

\* sorted() left out: the entries as iterdir() yields them
sorted_missing(seq) == seq

\* sorted(GOALS_DIR.iterdir()): the sibling paths order as their names do
RECURSIVE sorted(_)
sorted(seq) == IF seq = <<>> THEN <<>> ELSE Insert(Head(seq), sorted(Tail(seq)))

iterdir == listing

is_dir(d) == d \in dirs

\* the directories load_all_goals and load_attention_items skip
Skipped(d) == ~is_dir(d) \/ startswith(d, "_") \/ startswith(d, ".")

\* the loop of load_all_goals over ds; the first ValueError ends it
RECURSIVE LoadGoalsFrom(_, _)
LoadGoalsFrom(ds, goals) ==
    IF ds = <<>> THEN Return(goals)
    ELSE IF Skipped(Head(ds)) THEN LoadGoalsFrom(Tail(ds), goals)
    ELSE LET g == load_goal(Head(ds))
         IN  IF g.raised THEN g
             ELSE LoadGoalsFrom(Tail(ds), Append(goals, g.value))

load_all_goals ==
    IF ~rootExists THEN Return(<<>>)
    ELSE LoadGoalsFrom(sorted(iterdir), <<>>)

\* re.search(r"^## Open\s*$", content, re.MULTILINE) tried at line start i:
\* where the match ends (the index after it), 0 without a match.  \s* runs
\* over newlines too and gives back until $ holds.
OpenMatchEnd(content, i) ==
    IF ~StartsAt(content, i, "## Open") THEN 0
    ELSE LET from == i + Len("## Open")
             w == Scan(content, from, Spaces, FALSE)
             ends == {p \in from..w : p = Len(content) + 1 \/ Ch(content, p) = "\n"}
         IN  IF ends = {} THEN 0 ELSE CHOOSE p \in ends : \A q \in ends : q <= p

\* re.match of r"^### (Q\d+):\s*(.+)" at line start i of section: None, or
\* <<question id, title group, index after the match>>.  \s* runs over
\* newlines and gives back until a character other than a newline follows.
QuestionMatch(section, i) ==
    LET d == Scan(section, i + Len("### Q"), Digits, FALSE)
        w == Scan(section, d + 1, Spaces, FALSE)
        starts == {q \in (d + 1)..w : q <= Len(section) /\ Ch(section, q) # "\n"}
    IN  IF /\ StartsAt(section, i, "### Q")
           /\ d > i + Len("### Q")
           /\ StartsAt(section, d, ":")
           /\ starts # {}
        THEN LET q == CHOOSE x \in starts : \A y \in starts : y <= x
                 e == Scan(section, q, {"\n"}, TRUE)
             IN  Some(<<SubSeq(section, i + Len("### "), d - 1), SubSeq(section, q, e - 1), e>>)
        ELSE None

\* re.finditer over section from index pos on
RECURSIVE QuestionItemsFrom(_, _, _)
QuestionItemsFrom(goal_name, section, pos) ==
    LET at == {i \in LineStarts(section) : i >= pos /\ QuestionMatch(section, i) # None}
    IN  IF at = {} THEN <<>>
        ELSE LET m == QuestionMatch(section, CHOOSE i \in at : \A j \in at : i <= j)[1]
             IN  <<AttentionItem(goal_name, "question", strip(m[2]), None, Some(m[1]))>>
                 \o QuestionItemsFrom(goal_name, section, m[3])

load_open_questions(goal_name) ==
    LET questions_path == Join(goal_name, "questions.md")
    IN  IF ~exists(questions_path) THEN <<>>
        ELSE LET content == read_text(questions_path)
                 opens == {i \in LineStarts(content) : OpenMatchEnd(content, i) > 0}
             IN  IF opens = {} THEN <<>>
                 ELSE LET open_end == OpenMatchEnd(content,
                                          CHOOSE i \in opens : \A j \in opens : i <= j)
                          rest == From(content, open_end)
                          nexts == {i \in LineStarts(rest) : StartsAt(rest, i, "## ")}
                          open_section ==
                              IF nexts = {} THEN rest
                              ELSE SubSeq(rest, 1, (CHOOSE i \in nexts :
                                                       \A j \in nexts : i <= j) - 1)
                      IN  QuestionItemsFrom(goal_name, open_section, 1)

\* the loop of load_attention_items over ds
RECURSIVE AttentionItemsFrom(_)
AttentionItemsFrom(ds) ==
    IF ds = <<>> THEN <<>>
    ELSE IF Skipped(Head(ds)) THEN AttentionItemsFrom(Tail(ds))
    ELSE LET goal_name == Head(ds)
         IN  load_review_tasks(goal_name)
             \o load_open_questions(goal_name)
             \o (IF exists(Join(goal_name, ".pause"))
                 THEN <<AttentionItem(goal_name, "paused", "Paused: " \o goal_name,
                                      None, None)>>
                 ELSE <<>>)
             \o AttentionItemsFrom(Tail(ds))

load_attention_items ==
    IF ~rootExists THEN <<>>
    ELSE AttentionItemsFrom(sorted(iterdir))

LoadOpenQuestions(g) ==
    Called("load_open_questions", <<g>>, Return(load_open_questions(g)))

----------------------------------------------------------------------------
(* SpecQuestions: one goal whose question document is any text of a few    *)
(* pieces, read by load_open_questions.                                    *)

\* the most pieces a question document is made of
MaxQuestionPieces == 4

QuestionPieces ==
    {"## Open\n",
     "## Open items\n",
     "## Answered\n",
     "### Q1: scope\n",
     "### Q2: deadline\n",
     "### Q3:\n",
     "details\n",
     "\n"}

QuestionsPath == Join(Goal, "questions.md")

InitQuestions ==
    /\ rootExists = TRUE
    /\ listing = <<Goal>>
    /\ dirs = {Goal}
    /\ \/ files = NoFiles
       \/ \E text \in TextsOf(QuestionPieces, MaxQuestionPieces) :
              files = [p \in {QuestionsPath} |-> text]
    /\ call = NoCall
    /\ ret = Return(<<>>)
    /\ host = NoHost

NextQuestions == LoadOpenQuestions(Goal)

SpecQuestions == InitQuestions /\ [][NextQuestions]_vars

(* What the question document says, read off its lines.                    *)

QuestionLines == IF exists(QuestionsPath) THEN splitlines(read_text(QuestionsPath)) ELSE <<>>

IsOpenHeading(l) == startswith(l, "## Open") /\ strip(l) = "## Open"

\* the lines strictly between the first "## Open" heading and the next "## " heading
OpenSectionLines(lines) ==
    LET opens == {i \in 1..Len(lines) : IsOpenHeading(lines[i])}
    IN  IF opens = {} THEN {}
        ELSE LET o == Min(opens)
             IN  {i \in (o + 1)..Len(lines) :
                     \A k \in (o + 1)..i : ~startswith(lines[k], "## ")}

\* "### Q<digits>: <title>" with a title
IsQuestionEntry(l) ==
    LET d == Scan(l, Len("### Q") + 1, Digits, FALSE)
    IN  /\ startswith(l, "### Q")
        /\ d > Len("### Q") + 1
        /\ StartsAt(l, d, ":")
        /\ strip(From(l, d + 1)) # ""

QuestionEntryItem(l) ==
    LET d == Scan(l, Len("### Q") + 1, Digits, FALSE)
    IN  AttentionItem(Goal, "question", strip(From(l, d + 1)), None,
                      Some(SubSeq(l, Len("### ") + 1, d - 1)))

RECURSIVE OpenQuestionsFrom(_, _)
OpenQuestionsFrom(lines, i) ==
    IF i > Len(lines) THEN <<>>
    ELSE IF i \in OpenSectionLines(lines) /\ IsQuestionEntry(lines[i])
         THEN <<QuestionEntryItem(lines[i])>> \o OpenQuestionsFrom(lines, i + 1)
         ELSE OpenQuestionsFrom(lines, i + 1)

\* C10: load_open_questions emits one question item, with its identifier and
\* title, for each "### Q<digits>: <title>" entry between the "## Open"
\* heading and the next "## " heading, and no other item.
C10_OneItemPerOpenEntry ==
    call.op = "load_open_questions" =>
        ret = Return(OpenQuestionsFrom(QuestionLines, 1))

----------------------------------------------------------------------------
(* SpecGoal: one goal directory whose files other processes write and      *)
(* delete between the reader's calls.                                      *)

\* parse_state_md reading the file without looking whether it exists
ParseStateMd_unguarded(path) ==
    Called("parse_state_md", <<path>>,
           IF exists(path) THEN Return(parse_state_md(path)) ELSE Raise("FileNotFoundError"))

ParseStateMd(path) ==
    Called("parse_state_md", <<path>>, Return(parse_state_md(path)))

ParseConfigYaml(path) ==
    Called("parse_config_yaml", <<path>>, Return(parse_config_yaml(path)))

GetPrdSummary(path) ==
    Called("get_prd_summary", <<path>>, Return(get_prd_summary(path)))

LoadGoal(goal_dir) ==
    Called("load_goal", <<goal_dir>>, load_goal(goal_dir))

LoadAllGoals ==
    Called("load_all_goals", <<>>, load_all_goals)

LoadAttentionItems ==
    Called("load_attention_items", <<>>, Return(load_attention_items))

\* the length of the long line of a description document
LongLine == 130

StateTexts ==
    {"# Goal State\n\nstatus: building\npriority: high\nrepo: my-project\ntotal_cost_usd: 1.50\n",
     "status: created\nstatus: planning\npriority: urgent\nrepo: web\nlast_activity: 2026-01-05T10:00:00\ntotal_cost_usd: 12\n",
     "status: paused\npriority: low\nrepo: tools\ntotal_cost_usd: abc\n"}

ImplTexts ==
    {"# Plan\n\n- [x] T1: Done\n- [ ] T2: Pending\n- [BLOCKED: dep] T3: Blocked\n",
     "# Plan\n",
     Repeat("- [x] T1: step\n", 10) \o "- [REVIEW: check] T2: review\n"}

PrdTexts ==
    {"# PRD\n\n<!-- draft -->\n  Build the thing.  \n\nMore text.\n",
     "# PRD\n" \o Repeat("w", LongLine) \o "\n"}

\* the files of a goal directory another process may write, with their texts
GoalWrites ==
    ({"state.md"} \X StateTexts)
    \cup ({"IMPLEMENTATION.md"} \X ImplTexts)
    \cup ({"prd.md"} \X PrdTexts)
    \cup ({".replan", ".pause"} \X {""})
    \cup ({"feedback.md"} \X {"Please fix the tests.\n"})
    \cup ({"config.yaml"} \X {"language: python\nsandbox:\n  ports:\n    - 8080\n"})

GoalFileNames == {w[1] : w \in GoalWrites}

InitGoal ==
    /\ rootExists = TRUE
    /\ listing = <<Goal>>
    /\ dirs = {Goal}
    /\ files = NoFiles
    /\ call = NoCall
    /\ ret = Return(<<>>)
    /\ host = NoHost

WriteFile(d, name, text) ==
    /\ is_dir(d)
    /\ ~(exists(Join(d, name)) /\ read_text(Join(d, name)) = text)
    /\ files' = WithFile(Join(d, name), text)
    /\ Written
    /\ UNCHANGED <<rootExists, listing, dirs>>

DeleteFile(path) ==
    /\ exists(path)
    /\ files' = [p \in DOMAIN files \ {path} |-> files[p]]
    /\ Written
    /\ UNCHANGED <<rootExists, listing, dirs>>

\* an empty directory d is made under GOALS_DIR
MakeDir(d) ==
    /\ rootExists
    /\ \A k \in 1..Len(listing) : listing[k] # d
    /\ listing' = Append(listing, d)
    /\ dirs' = dirs \cup {d}
    /\ Written
    /\ UNCHANGED <<rootExists, files>>

\* GOALS_DIR is removed with all it holds, or made anew
RemoveRoot ==
    /\ rootExists
    /\ rootExists' = FALSE
    /\ listing' = <<>>
    /\ dirs' = {}
    /\ files' = NoFiles
    /\ Written

MakeRoot ==
    /\ ~rootExists
    /\ rootExists' = TRUE
    /\ Written
    /\ UNCHANGED <<listing, dirs, files>>

NextGoal ==
    \/ \E w \in GoalWrites : WriteFile(Goal, w[1], w[2])
    \/ \E name \in GoalFileNames : DeleteFile(Join(Goal, name))
    \/ MakeDir(Goal)
    \/ RemoveRoot
    \/ MakeRoot
    \/ LoadGoal(Goal)
    \/ \E name \in {"state.md"} : ParseStateMd(Join(Goal, name))
    \/ \E name \in {"config.yaml"} : ParseConfigYaml(Join(Goal, name))
    \/ \E name \in {"IMPLEMENTATION.md"} : CountTasks(Join(Goal, name))
    \/ \E name \in {"prd.md"} : GetPrdSummary(Join(Goal, name))
    \/ LoadAllGoals
    \/ LoadAttentionItems

SpecGoal == InitGoal /\ [][NextGoal]_vars

(* What the files of a goal directory say.                                 *)

LinesOf(path) == IF exists(path) THEN splitlines(read_text(path)) ELSE <<>>

Max(S) == CHOOSE x \in S : \A y \in S : y <= x

\* the lines of a status document that give key, and the value it has: that
\* of the last of them
LinesGiving(lines, key) ==
    {i \in 1..Len(lines) :
        LET l == strip(lines[i])
        IN  HasColon(l) /\ ~startswith(l, "#") /\ strip(BeforeColon(l)) = key}

Gives(lines, key) == LinesGiving(lines, key) # {}

ValueOr(lines, key, default) ==
    IF Gives(lines, key)
    THEN strip(AfterColon(strip(lines[Max(LinesGiving(lines, key))])))
    ELSE default

IsNumber(v) == float(v) # None

Zero == [m |-> 0, e |-> 0]

\* the first line of a description document that is not blank, a heading or
\* a comment, cut to 120 characters
SummaryOf(lines) ==
    LET Q == {i \in 1..Len(lines) :
                 LET l == strip(lines[i])
                 IN  l # "" /\ ~startswith(l, "#") /\ ~startswith(l, "<!--")}
    IN  IF Q = {} THEN ""
        ELSE LET l == strip(lines[Min(Q)])
             IN  IF Len(l) <= 120 THEN l ELSE SubSeq(l, 1, 120)

\* the snapshot the files of goal directory d stand for; a cost that is no
\* number counts as the default 0
SnapshotOf(d) ==
    LET st == LinesOf(Join(d, "state.md"))
        impl == LinesOf(Join(d, "IMPLEMENTATION.md"))
        cost == ValueOr(st, "total_cost_usd", "0")
    IN  GoalState(d,
                  ValueOr(st, "status", "created"),
                  ValueOr(st, "priority", "normal"),
                  ValueOr(st, "last_activity", ""),
                  Cardinality(TasksWithStatus(impl, "done")),
                  Cardinality({i \in 1..Len(impl) : IsTaskLine(impl[i])}),
                  Cardinality(TasksWithStatus(impl, "blocked")),
                  Cardinality(TasksWithStatus(impl, "review")),
                  IF IsNumber(cost) THEN float(cost)[1] ELSE Zero,
                  exists(Join(d, ".replan")),
                  exists(Join(d, "feedback.md")),
                  SummaryOf(LinesOf(Join(d, "prd.md"))),
                  ValueOr(st, "repo", ""),
                  d)

----------------------------------------------------------------------------
(* Claims on one goal's snapshot.                                          *)

\* C4: every load_goal call returns the snapshot its files stand for at the
\* time of the call, whatever was written, created or deleted before, and a
\* second call with no write in between returns the same snapshot.
C4_EveryReadIsFresh ==
    [][call'.op = "load_goal" =>
          /\ ret' = Return(SnapshotOf(call'.arg[1]))
          /\ (call.op = "load_goal" => ret' = ret)]_vars

\* C5: on a path that does not exist parse_state_md and parse_config_yaml
\* return {}, count_tasks returns (0, 0, 0, 0) and get_prd_summary "";
\* without the goals root load_all_goals and load_attention_items return an
\* empty sequence; none raises.
C5_MissingIsNotAnError ==
    /\ (call.op \in {"parse_state_md", "parse_config_yaml"} /\ ~exists(call.arg[1]))
           => (~ret.raised /\ DOMAIN ret.value = {})
    /\ (call.op = "count_tasks" /\ ~exists(call.arg[1]))
           => ret = Return(<<0, 0, 0, 0>>)
    /\ (call.op = "get_prd_summary" /\ ~exists(call.arg[1]))
           => ret = Return("")
    /\ (call.op \in {"load_all_goals", "load_attention_items"} /\ ~rootExists)
           => ret = Return(<<>>)

\* C5 witness: parse_state_md has read a path whose directory is gone
C5_Witness ==
    /\ call.op = "parse_state_md"
    /\ ~rootExists
    /\ ~exists(call.arg[1])
    /\ ~ret.raised

\* C6: load_goal never raises; with no files it returns the defaults, and a
\* total_cost_usd that is no number leaves the cost at 0.
C6_LoadGoalDegradesToDefaults ==
    call.op = "load_goal" =>
        LET d == call.arg[1]
            st == LinesOf(Join(d, "state.md"))
        IN  /\ ~ret.raised
            /\ (\A name \in GoalFileNames : ~exists(Join(d, name)))
                   => ret.value = GoalState(d, "created", "normal", "", 0, 0, 0, 0, Zero,
                                            FALSE, FALSE, "", "", d)
            /\ ~IsNumber(ValueOr(st, "total_cost_usd", "0"))
                   => ret.value.total_cost_usd = Zero

\* C7: when the status document gives status, priority, repo and a cost,
\* load_goal returns a snapshot with those values, the counts of count_tasks,
\* has_replan and has_feedback by the existence of .replan and feedback.md,
\* and progress "<completed>/<total>", or "no tasks" when total is 0.
C7_SnapshotCarriesTheFiles ==
    LET d == call.arg[1]
        st == LinesOf(Join(d, "state.md"))
        counts == count_tasks(Join(d, "IMPLEMENTATION.md"))
        g == ret.value
    IN  (/\ call.op = "load_goal"
         /\ \A key \in {"status", "priority", "repo", "total_cost_usd"} : Gives(st, key)
         /\ IsNumber(ValueOr(st, "total_cost_usd", "0")))
        => /\ ~ret.raised
           /\ g.name = d
           /\ g.status = ValueOr(st, "status", "")
           /\ g.priority = ValueOr(st, "priority", "")
           /\ g.repo_name = ValueOr(st, "repo", "")
           /\ g.total_cost_usd = float(ValueOr(st, "total_cost_usd", ""))[1]
           /\ (ValueOr(st, "total_cost_usd", "") = "1.50"
                   => g.total_cost_usd = [m |-> 15, e |-> -1])
           /\ <<g.total_tasks, g.completed_tasks, g.blocked_tasks, g.review_tasks>> = counts
           /\ g.has_replan = exists(Join(d, ".replan"))
           /\ g.has_feedback = exists(Join(d, "feedback.md"))
           /\ (g.total_tasks = 0 => progress(g) = "no tasks")
           /\ (g.total_tasks > 0
                   => progress(g) = str(g.completed_tasks) \o "/" \o str(g.total_tasks))
           /\ (g.completed_tasks = 1 /\ g.total_tasks = 3 => progress(g) = "1/3")
           /\ (g.completed_tasks = 10 /\ g.total_tasks = 11 => progress(g) = "10/11")

\* C7 witness: the snapshot of a building goal with 1 of 3 tasks done and a
\* .replan marker
C7_Witness ==
    /\ call.op = "load_goal"
    /\ ~ret.raised
    /\ ret.value.status = "building"
    /\ ret.value.priority = "high"
    /\ ret.value.repo_name = "my-project"
    /\ ret.value.total_cost_usd = [m |-> 15, e |-> -1]
    /\ progress(ret.value) = "1/3"
    /\ ret.value.blocked_tasks = 1
    /\ ret.value.has_replan
    /\ ~ret.value.has_feedback

----------------------------------------------------------------------------
(* SpecGoals: the goals root, whose entries other processes make and       *)
(* remove in any order, read by load_all_goals and load_attention_items.   *)

DirNames == {"alpha", "beta", "_completed", ".cache"}

PlainNames == {"orchestrator.log"}

ReviewedChecklist ==
    "- [x] T1: Setup\n- [REVIEW: Check output] T2: Review task\n  - Depends: T1\n- [REVIEW: Sign off] T3: Release\n  - Depends: T9\n"

OpenQuestions ==
    "# Questions\n\n## Open\n\n### Q1: Which database?\nDetails\n\n### Q2: Which host?\n\n## Answered\n\n### Q0: Old question\nAnswer\n"

\* what a goal directory is made with: its files and their texts
BuildingGoal ==
    {<<"state.md", "status: building\npriority: high\nrepo: my-project\ntotal_cost_usd: 1.50\n">>,
     <<"IMPLEMENTATION.md", ReviewedChecklist>>}

PausedGoal ==
    {<<"state.md", "status: paused\n">>,
     <<"IMPLEMENTATION.md", ReviewedChecklist>>,
     <<"questions.md", OpenQuestions>>,
     <<".pause", "">>}

AskingGoal == {<<"questions.md", OpenQuestions>>}

BrokenCostGoal == {<<"state.md", "status: building\ntotal_cost_usd: n/a\n">>}

GoalContents(d) ==
    IF startswith(d, "_") \/ startswith(d, ".") THEN {PausedGoal}
    ELSE {{}, BuildingGoal, PausedGoal, AskingGoal, BrokenCostGoal}

InitGoals ==
    /\ rootExists = TRUE
    /\ listing = <<>>
    /\ dirs = {}
    /\ files = NoFiles
    /\ call = NoCall
    /\ ret = Return(<<>>)
    /\ host = NoHost

Listed(name) == \E k \in 1..Len(listing) : listing[k] = name

\* a goal directory is made with its files
MakeGoal(d, contents) ==
    /\ rootExists
    /\ ~Listed(d)
    /\ listing' = Append(listing, d)
    /\ dirs' = dirs \cup {d}
    /\ files' = [p \in DOMAIN files \cup {Join(d, w[1]) : w \in contents} |->
                    IF p \in DOMAIN files THEN files[p]
                    ELSE (CHOOSE w \in contents : Join(d, w[1]) = p)[2]]
    /\ Written
    /\ UNCHANGED rootExists

\* a file is made directly under GOALS_DIR
MakePlain(name) ==
    /\ rootExists
    /\ ~Listed(name)
    /\ listing' = Append(listing, name)
    /\ Written
    /\ UNCHANGED <<rootExists, dirs, files>>

\* an entry of GOALS_DIR is removed with all it holds
RemoveEntry(name) ==
    /\ Listed(name)
    /\ listing' = SelectSeq(listing, LAMBDA e : e # name)
    /\ dirs' = dirs \ {name}
    /\ files' = [p \in {q \in DOMAIN files : ~startswith(q, name \o "/")} |-> files[p]]
    /\ Written
    /\ UNCHANGED rootExists

NextGoals ==
    \/ \E d \in DirNames : \E contents \in GoalContents(d) : MakeGoal(d, contents)
    \/ \E name \in PlainNames : MakePlain(name)
    \/ \E name \in DirNames \cup PlainNames : RemoveEntry(name)
    \/ RemoveRoot
    \/ MakeRoot
    \/ LoadAllGoals
    \/ LoadAttentionItems

SpecGoals == InitGoals /\ [][NextGoals]_vars

(* Claims on the goals root.                                               *)

\* the goal directories: those whose name starts with neither "_" nor "."
GoalDirs == {d \in dirs : ~startswith(d, "_") /\ ~startswith(d, ".")}

\* a and b are in order: equal, or a before b as strings
InOrder(a, b) == a = b \/ StrLess(a, b)

\* C8: load_all_goals returns one snapshot for each directory under the goals
\* root whose name starts with neither "_" nor ".", and no other, in the
\* order of the directory names, however the directories were made.
C8_OneSnapshotPerGoalDirSorted ==
    call.op = "load_all_goals" =>
        /\ ~ret.raised
        /\ {ret.value[k].name : k \in 1..Len(ret.value)} = GoalDirs
        /\ Len(ret.value) = Cardinality(GoalDirs)
        /\ \A k \in 1..(Len(ret.value) - 1) :
               StrLess(ret.value[k].name, ret.value[k + 1].name)
        /\ \A k \in 1..Len(ret.value) : ret.value[k] = SnapshotOf(ret.value[k].name)

\* the items of goal d: its actionable reviews, its open questions, and one
\* paused item when its .pause marker exists
ItemsOfGoal(d) ==
    load_review_tasks(d)
    \o load_open_questions(d)
    \o (IF exists(Join(d, ".pause"))
        THEN <<AttentionItem(d, "paused", "Paused: " \o d, None, None)>>
        ELSE <<>>)

\* C9: load_attention_items returns the items of the goal directories, goal
\* after goal in the order of the directory names: per goal its reviews, then
\* its open questions, then one paused item iff .pause exists; no item of a
\* directory whose name starts with "_" or ".".
C9_AttentionItemsGoalByGoal ==
    call.op = "load_attention_items" =>
        LET items == ret.value
        IN  /\ ~ret.raised
            /\ \A k \in 1..Len(items) : items[k].goal_name \in GoalDirs
            /\ \A k \in 1..(Len(items) - 1) :
                   InOrder(items[k].goal_name, items[k + 1].goal_name)
            /\ \A d \in GoalDirs :
                   SelectSeq(items, LAMBDA it : it.goal_name = d) = ItemsOfGoal(d)
            /\ \A d \in GoalDirs :
                   Cardinality({k \in 1..Len(items) :
                                   items[k].goal_name = d /\ items[k].item_type = "paused"})
                       = IF exists(Join(d, ".pause")) THEN 1 ELSE 0
            /\ \A k \in 1..(Len(items) - 1) :
                   items[k].goal_name = items[k + 1].goal_name
                       => \/ items[k].item_type = "review"
                          \/ items[k].item_type = "question"
                                 /\ items[k + 1].item_type # "review"

\* C9 witness: beta was made before alpha and both have items, and a paused
\* "_completed" stands beside them
C9_Witness ==
    /\ call.op = "load_attention_items"
    /\ Len(listing) >= 3
    /\ listing[1] = "beta"
    /\ "_completed" \in dirs
    /\ exists(Join("_completed", ".pause"))
    /\ Len(ret.value) >= 5
    /\ ret.value[1].goal_name = "alpha"
    /\ ret.value[1].item_type = "review"
    /\ ret.value[Len(ret.value)].goal_name = "beta"
    /\ ret.value[Len(ret.value)].item_type = "paused"

----------------------------------------------------------------------------
(* SpecRecords: a status document or a repo config of a few lines, read by *)
(* parse_state_md and parse_config_yaml.                                   *)

\* the most lines a status document is made of
MaxRecordLines == 3

\* the most lines a repo config is made of
MaxConfigLines == 4

RecordPieces ==
    {"status: building\n",
     "status: paused\n",
     "  repo :  web  \n",
     "url: http://host:80\n",
     "# status: hidden\n",
     "  # note: draft\n",
     "no colon here\n",
     ": orphan\n",
     "status:\n",
     "\n"}

ConfigPieces ==
    {"checks:\n",
     "checks: all\n",
     "  lint: a\n",
     "  test: b\n",
     "  - testing\n",
     "  - docker\n",
     "- top\n",
     "name: web\n",
     "    deep:\n",
     "  # - lint: c\n"}

StatePath == Join(Goal, "state.md")

ConfigPath == Join(Goal, "config.yaml")

InitRecords ==
    /\ rootExists = TRUE
    /\ listing = <<Goal>>
    /\ dirs = {Goal}
    /\ \/ \E text \in TextsOf(RecordPieces, MaxRecordLines) :
              files = [p \in {StatePath} |-> text]
       \/ \E text \in TextsOf(ConfigPieces, MaxConfigLines) :
              files = [p \in {ConfigPath} |-> text]
    /\ call = NoCall
    /\ ret = Return(<<>>)
    /\ host = NoHost

NextRecords ==
    \/ ParseStateMd(StatePath)
    \/ ParseConfigYaml(ConfigPath)

SpecRecords == InitRecords /\ [][NextRecords]_vars

(* What the lines of a status document say.                                *)

\* the positions of the colons of a text
Colons(t) == {i \in 1..Len(t) : Ch(t, i) = ":"}

IsCommentLine(l) == startswith(strip(l), "#")

\* the key and the value a line carries: the trimmed texts on both sides of
\* its first colon
KeyOf(l) == strip(SubSeq(strip(l), 1, Min(Colons(strip(l))) - 1))

ValueOf(l) == strip(From(strip(l), Min(Colons(strip(l))) + 1))

\* the lines that carry a key
Carrying(lines) ==
    {i \in 1..Len(lines) : Colons(lines[i]) # {} /\ ~IsCommentLine(lines[i])}

\* C11: parse_state_md maps exactly the keys carried by the lines that have
\* a ':' and do not start with '#' after trimming, each to the trimmed text
\* after the first ':' of the last line carrying it.
C11_LastLineOfEachKeyWins ==
    (call.op = "parse_state_md" /\ exists(call.arg[1])) =>
        LET lines == LinesOf(call.arg[1])
            carrying == Carrying(lines)
        IN  /\ ~ret.raised
            /\ DOMAIN ret.value = {KeyOf(lines[i]) : i \in carrying}
            /\ \A i \in carrying :
                   (\A j \in carrying : j > i => KeyOf(lines[j]) # KeyOf(lines[i]))
                       => ret.value[KeyOf(lines[i])] = ValueOf(lines[i])

\* C11 witness: a status document with two status lines, a value holding
\* colons, a comment and a line without colon has been parsed
C11_Witness ==
    /\ call.op = "parse_state_md"
    /\ exists(StatePath)
    /\ read_text(StatePath) = "status: building\nstatus: paused\nurl: http://host:80\n"
    /\ DOMAIN ret.value = {"status", "url"}
    /\ ret.value["status"] = "paused"
    /\ ret.value["url"] = "http://host:80"

\* C11 witness of the ignored lines
C11_IgnoredWitness ==
    /\ call.op = "parse_state_md"
    /\ exists(StatePath)
    /\ read_text(StatePath) = "# status: hidden\nno colon here\n  repo :  web  \n"
    /\ DOMAIN ret.value = {"repo"}
    /\ ret.value["repo"] = "web"

(* What the lines of a repo config say.                                    *)

\* the width of the leading whitespace of a line
Indent(l) == Cardinality({i \in 1..Len(l) : \A k \in 1..i : Ch(l, k) \in Spaces})

IsSkippedLine(l) == strip(l) = "" \/ IsCommentLine(l)

IsListItem(l) == ~IsSkippedLine(l) /\ startswith(strip(l), "- ")

IsKeyLine(l) == ~IsSkippedLine(l) /\ ~IsListItem(l) /\ Colons(l) # {}

\* "key: value" with a value
IsLeaf(l) == IsKeyLine(l) /\ ValueOf(l) # ""

\* "key:" with no inline value
IsParent(l) == IsKeyLine(l) /\ ValueOf(l) = ""

\* the parent lines above line i; the current parent of line i is the last
ParentsAbove(lines, i) == {j \in 1..(i - 1) : IsParent(lines[j])}

HasParent(lines, i) == ParentsAbove(lines, i) # {}

ParentOf(lines, i) == lines[Max(ParentsAbove(lines, i))]

\* the key a leaf line is stored under, if any
LeafTarget(lines, i) ==
    IF Indent(lines[i]) = 0 THEN Some(KeyOf(lines[i]))
    ELSE IF HasParent(lines, i)
         THEN Some(KeyOf(ParentOf(lines, i)) \o "." \o KeyOf(lines[i]))
         ELSE None

\* the leaf lines stored under key
LeavesOf(lines, key) ==
    {i \in 1..Len(lines) : IsLeaf(lines[i]) /\ LeafTarget(lines, i) = Some(key)}

\* the keys stored with a string
StringKeys(d) == {k \in DOMAIN d : ~IsList(d[k])}

\* the keys stored with a sequence
ListKeys(d) == {k \in DOMAIN d : IsList(d[k])}

ConfigLines == LinesOf(ConfigPath)

C12_OrphanWitness ==
    /\ call.op = "parse_config_yaml"
    /\ exists(ConfigPath)
    /\ read_text(ConfigPath) = "  lint: a\nname: web\n"
    /\ DOMAIN ret.value = {"name"}

\* a list item below a parent and indented deeper than it
IsDeeperItem(lines, i) ==
    /\ IsListItem(lines[i])
    /\ HasParent(lines, i)
    /\ Indent(lines[i]) > Indent(ParentOf(lines, i))

\* the text of a list item: what follows "- ", trimmed
ItemOf(l) == strip(From(strip(l), Len("- ") + 1))

\* the deeper items below parent key, from line i on, in source order
RECURSIVE ItemsFor(_, _, _)
ItemsFor(lines, key, i) ==
    IF i > Len(lines) THEN <<>>
    ELSE IF IsDeeperItem(lines, i) /\ KeyOf(ParentOf(lines, i)) = key
         THEN <<ItemOf(lines[i])>> \o ItemsFor(lines, key, i + 1)
         ELSE ItemsFor(lines, key, i + 1)

ParentKeys(lines) == {KeyOf(lines[i]) : i \in {j \in 1..Len(lines) : IsParent(lines[j])}}

\* the first deeper item below parent key
FirstItemOf(lines, key) ==
    Min({i \in 1..Len(lines) : IsDeeperItem(lines, i) /\ KeyOf(ParentOf(lines, i)) = key})

StillActive(lines, j, i) ==
    \A k \in (j + 1)..i :
        IsSkippedLine(lines[k]) \/ Indent(lines[k]) > Indent(lines[j])

\* line i has a parent above it that no shallower line has ended
UnderActiveParent(lines, i) ==
    HasParent(lines, i) /\ StillActive(lines, Max(ParentsAbove(lines, i)), i)

\* the items stored below parent key when a parent ends at the first line
\* that is not deeper than it
RECURSIVE ActiveItemsFor(_, _, _)
ActiveItemsFor(lines, key, i) ==
    IF i > Len(lines) THEN <<>>
    ELSE IF /\ IsDeeperItem(lines, i)
            /\ UnderActiveParent(lines, i)
            /\ KeyOf(ParentOf(lines, i)) = key
         THEN <<ItemOf(lines[i])>> \o ActiveItemsFor(lines, key, i + 1)
         ELSE ActiveItemsFor(lines, key, i + 1)

\* C14: a key with no inline value is the parent only of the deeper lines
\* that follow it; after a line indented no deeper than the parent, indented
\* leaf lines are not stored under "parent.key" and list items are not
\* appended to the parent's sequence.
C14_ParentEndsAtShallowerLine ==
    (call.op = "parse_config_yaml" /\ exists(call.arg[1])) =>
        LET lines == LinesOf(call.arg[1])
            leaves == {i \in 1..Len(lines) : IsLeaf(lines[i])}
        IN  /\ StringKeys(ret.value) \subseteq
                   {LeafTarget(lines, i)[1] :
                       i \in {j \in leaves :
                                 Indent(lines[j]) = 0 \/ UnderActiveParent(lines, j)}}
            /\ \A k \in ListKeys(ret.value) :
                   ret.value[k] = List(ActiveItemsFor(lines, k, 1))

IsNoComment(l) == ~IsCommentLine(l)

\* the lines of a document without its comment lines
WithoutComments(lines) == SelectSeq(lines, IsNoComment)

\* C15: in parse_state_md and parse_config_yaml a line whose first non-blank
\* character is '#' adds nothing: the result is that of the document without
\* its comment lines, and no key of the result starts with '#'.
C15_CommentLinesAddNothing ==
    LET lines == LinesOf(call.arg[1])
    IN  /\ (call.op = "parse_state_md" /\ exists(call.arg[1]))
               => /\ ret = Return(ParseStateLines(WithoutComments(lines), 1, EmptyDict))
                  /\ \A k \in DOMAIN ret.value : ~startswith(k, "#")
        /\ (call.op = "parse_config_yaml" /\ exists(call.arg[1]))
               => /\ ret = Return(ConfigLoop(WithoutComments(lines), 1,
                                     [result |-> EmptyDict, current_key |-> None,
                                      current_indent |-> 0]).result)
                  /\ \A k \in DOMAIN ret.value :
                         /\ ~startswith(k, "#")
                         /\ IsList(ret.value[k])
                                => \A n \in 1..Len(ret.value[k][2]) :
                                       ~startswith(ret.value[k][2][n], "#")

\* C15 witness: a repo config with a comment line that holds "- " and ":"
\* between the lines of a parent has been parsed
C15_Witness ==
    /\ call.op = "parse_config_yaml"
    /\ exists(ConfigPath)
    /\ read_text(ConfigPath) = "checks:\n  # - lint: c\n  lint: a\n"
    /\ ret.value = [k \in {"checks.lint"} |-> Str("a")]

\* C15 witness of a status document with comment lines
C15_StateWitness ==
    /\ call.op = "parse_state_md"
    /\ exists(StatePath)
    /\ read_text(StatePath) = "# status: hidden\n  # note: draft\nstatus: paused\n"
    /\ ret.value = [k \in {"status"} |-> "paused"]

----------------------------------------------------------------------------
(* The credential gate of the sandbox launcher (sandbox.py).               *)
(*                                                                         *)
(* The credentials file is held decoded: a JSON value tagged with its      *)
(* type, "invalid" for a text json.loads rejects.  host.docker is what     *)
(* "docker info" does: "ok" (exit 0), "failed" (another exit code),        *)
(* "missing" (FileNotFoundError) or "timeout" (TimeoutExpired).            *)

\* a JSON value: its type t and, by the type, its number n, its string s or
\* its members o; JConst("invalid") is a text json.loads rejects
JConst(t) == [t |-> t, n |-> 0, s |-> "", o |-> EmptyDict]
JInt(n) == [t |-> "int", n |-> n, s |-> "", o |-> EmptyDict]
JStr(x) == [t |-> "str", n |-> 0, s |-> x, o |-> EmptyDict]
JObject(fields) == [t |-> "object", n |-> 0, s |-> "", o |-> fields]

\* _check_token_expiry with the margin taken strictly
ExpiryAgainstNow_strictMargin(credentials, now_ms) ==
    LET expires_at == LET e == credentials[1].o["claudeAiOauth"].o["expiresAt"]
                      IN  IF e.t = "int" THEN e.n ELSE IntOf(e.s)
    IN  IF expires_at <= now_ms
        THEN Return(<<FALSE, "Claude OAuth token has expired.\nRun 'claude' in your terminal to re-authenticate, then retry.">>)
        ELSE IF expires_at - now_ms < 30 * 60 * 1000
        THEN Return(<<TRUE, "WARNING: Claude OAuth token expires in ~"
                              \o str((expires_at - now_ms) \div 60000) \o " minutes.">>)
        ELSE Return(<<TRUE, "">>)

\* _check_token_expiry once int(expires_at) has succeeded
ExpiryAgainstNow(credentials, now_ms) ==
    LET expires_at == LET e == credentials[1].o["claudeAiOauth"].o["expiresAt"]
                      IN  IF e.t = "int" THEN e.n ELSE IntOf(e.s)
        margin_ms == 30 * 60 * 1000
    IN  IF expires_at <= now_ms
        THEN Return(<<FALSE, "Claude OAuth token has expired.\nRun 'claude' in your terminal to re-authenticate, then retry.">>)
        ELSE IF (expires_at - now_ms) <= margin_ms
        THEN LET remaining_min == (expires_at - now_ms) \div 60000
             IN  Return(<<TRUE, "WARNING: Claude OAuth token expires in ~"
                                   \o str(remaining_min) \o " minutes.">>)
        ELSE Return(<<TRUE, "">>)

\* _check_token_expiry on the credentials file (None when it does not exist)
_check_token_expiry(credentials, now_ms) ==
    IF credentials = None
    THEN Return(<<FALSE, "Failed to read credentials file: [Errno 2] No such file or directory">>)
    ELSE IF credentials[1].t = "invalid"
    THEN Return(<<FALSE, "Failed to read credentials file: Expecting value: line 1 column 1 (char 0)">>)
    ELSE IF credentials[1].t # "object" THEN Raise("AttributeError")
    ELSE LET data == credentials[1].o
             oauth_data == IF "claudeAiOauth" \in DOMAIN data
                           THEN data["claudeAiOauth"] ELSE JObject(EmptyDict)
             expires_at == IF oauth_data.t = "object" /\ "expiresAt" \in DOMAIN oauth_data.o
                           THEN oauth_data.o["expiresAt"] ELSE JConst("null")
             isInt == \/ expires_at.t = "int"
                      \/ /\ expires_at.t = "str"
                         /\ expires_at.s # ""
                         /\ \A k \in 1..Len(expires_at.s) : Ch(expires_at.s, k) \in Digits
         IN  IF expires_at.t = "null" THEN Return(<<TRUE, "">>)
             ELSE IF ~isInt THEN Return(<<TRUE, "">>)
             ELSE ExpiryAgainstNow(credentials, now_ms)

\* _export_macos_keychain_credentials: what it returns and the credentials
\* file it leaves
_export_macos_keychain_credentials(h) ==
    IF h.credentials # None THEN [ret |-> <<TRUE, "">>, credentials |-> h.credentials]
    ELSE IF h.keychain.outcome = "missing"
    THEN [ret |-> <<FALSE, "macOS 'security' command not found.">>, credentials |-> None]
    ELSE IF h.keychain.outcome = "timeout"
    THEN [ret |-> <<FALSE, "Timed out reading Claude credentials from Keychain.">>,
          credentials |-> None]
    ELSE IF h.keychain.returncode # 0 \/ h.keychain.stdout = None
    THEN [ret |-> <<FALSE, "Claude credentials not found in macOS Keychain or on disk.\nRun 'claude' on the host first to authenticate.">>,
          credentials |-> None]
    ELSE [ret |-> <<TRUE, "">>, credentials |-> h.keychain.stdout]

\* a runtime check that never fails
DockerRaised_never(h) == FALSE

\* subprocess.run(["docker", "info"], ...) raised
DockerRaised(h) == h.docker \in {"missing", "timeout"}

\* validate_credentials with the SSH warning put before the token warning
SshMessage_warningFirst(msg, ssh_sock) ==
    LET warning == "WARNING: SSH_AUTH_SOCK not set. Git operations requiring SSH keys will fail."
    IN  IF ssh_sock = None \/ ssh_sock[1] = "" 
        THEN IF msg # "" THEN strip(warning \o "\n" \o msg) ELSE warning
        ELSE msg

\* the message validate_credentials returns once the fatal checks passed
SshMessage(msg, ssh_sock) ==
    LET warning == "WARNING: SSH_AUTH_SOCK not set. Git operations requiring SSH keys will fail."
    IN  IF ssh_sock = None \/ ssh_sock[1] = "" 
        THEN IF msg # "" THEN strip(msg \o "\n" \o warning) ELSE warning
        ELSE msg

\* os.environ.get(name)
environ_get(h, name) == IF name \in DOMAIN h.environ THEN Some(h.environ[name]) ELSE None

\* validate_credentials: what it returns, the credentials file it leaves and
\* the checks it evaluated, in order
validate_credentials(h) ==
    IF DockerRaised(h)
    THEN [result |-> Return(<<FALSE,
                     IF h.docker = "missing"
                     THEN "Docker is required to run the agent sandbox.\nInstall Docker Desktop: https://www.docker.com/products/docker-desktop/"
                     ELSE "Docker daemon is not responding. Is Docker Desktop running?">>),
          credentials |-> h.credentials, checked |-> <<"runtime">>]
    ELSE LET export == IF h.system = "Darwin" THEN _export_macos_keychain_credentials(h)
                       ELSE [ret |-> <<TRUE, "">>, credentials |-> h.credentials]
         IN  IF ~export.ret[1]
             THEN [result |-> Return(<<FALSE, export.ret[2]>>),
                   credentials |-> export.credentials,
                   checked |-> <<"runtime", "credentials">>]
             ELSE IF export.credentials = None
             THEN [result |-> Return(<<FALSE, "Claude credentials not found.\nRun 'claude' on the host first to authenticate.">>),
                   credentials |-> export.credentials,
                   checked |-> <<"runtime", "credentials">>]
             ELSE LET expiry == _check_token_expiry(export.credentials, h.now_ms)
                  IN  IF expiry.raised \/ ~expiry.value[1]
                      THEN [result |-> IF expiry.raised THEN expiry
                                       ELSE Return(<<FALSE, expiry.value[2]>>),
                            credentials |-> export.credentials,
                            checked |-> <<"runtime", "credentials", "expiry">>]
                      ELSE [result |-> Return(<<TRUE,
                                          SshMessage(expiry.value[2],
                                                     environ_get(h, "SSH_AUTH_SOCK"))>>),
                            credentials |-> export.credentials,
                            checked |-> <<"runtime", "credentials", "expiry", "ssh">>]

ValidateCredentials ==
    LET done == validate_credentials(host)
    IN  /\ call' = [op |-> "validate_credentials", arg |-> <<>>]
        /\ ret' = done.result
        /\ host' = [host EXCEPT !.credentials = done.credentials,
                                !.checked = done.checked]
        /\ UNCHANGED <<rootExists, listing, dirs, files>>

CheckTokenExpiry ==
    Called("_check_token_expiry", <<>>, _check_token_expiry(host.credentials, host.now_ms))

----------------------------------------------------------------------------
(* SpecCredentials: any host of a few kinds, on which validate_credentials *)
(* and _check_token_expiry are called.                                     *)

\* the clock readings tried are MaxHours many
MaxHours == 2

ClockReadings == {3600000 * k + k : k \in 1..MaxHours}

\* the distances in milliseconds between the expiry and the clock
ExpiryDistances == {0 - 1, 0, 1, 59999, 60000, 1799999, 1800000, 1800001}

OAuthDoc(expiresAt) ==
    JObject([k \in {"claudeAiOauth"} |-> JObject([f \in {"expiresAt"} |-> expiresAt])])

\* the credentials files tried at clock reading now
CredentialDocs(now) ==
    {JConst("invalid"), JConst("array"), JObject(EmptyDict),
     JObject([k \in {"claudeAiOauth"} |-> JStr("token")]),
     JObject([k \in {"claudeAiOauth"} |-> JObject([f \in {"accessToken"} |-> JStr("sk")])]),
     OAuthDoc(JConst("null")), OAuthDoc(JStr("soon")), OAuthDoc(JStr(str(now + 120000)))}
    \cup {OAuthDoc(JInt(now + d)) : d \in ExpiryDistances}

KeychainStates(now) ==
    {[outcome |-> "missing", returncode |-> 0, stdout |-> None],
     [outcome |-> "timeout", returncode |-> 0, stdout |-> None],
     [outcome |-> "ran", returncode |-> 44, stdout |-> None],
     [outcome |-> "ran", returncode |-> 0, stdout |-> None],
     [outcome |-> "ran", returncode |-> 0, stdout |-> Some(OAuthDoc(JInt(now + 60000)))],
     [outcome |-> "ran", returncode |-> 0, stdout |-> Some(OAuthDoc(JInt(now - 1)))]}

SshEnvirons ==
    {[n \in {} |-> ""],
     [n \in {"SSH_AUTH_SOCK"} |-> ""],
     [n \in {"SSH_AUTH_SOCK"} |-> "/tmp/ssh-agent.sock"]}

InitCredentials ==
    /\ rootExists = TRUE
    /\ listing = <<>>
    /\ dirs = {}
    /\ files = NoFiles
    /\ call = NoCall
    /\ ret = Return(<<>>)
    /\ \E docker \in {"ok", "failed", "missing", "timeout"},
          system \in {"Darwin", "Linux"},
          now \in ClockReadings,
          environ \in SshEnvirons :
          \E credentials \in {None} \cup {Some(c) : c \in CredentialDocs(now)},
             keychain \in KeychainStates(now) :
              host = [docker |-> docker, system |-> system, credentials |-> credentials,
                      keychain |-> keychain, environ |-> environ, now_ms |-> now,
                      checked |-> <<>>]

NextCredentials ==
    \/ ValidateCredentials
    \/ CheckTokenExpiry

SpecCredentials == InitCredentials /\ [][NextCredentials]_vars

(* What the host says, and the messages of the credential gate.            *)

CheckOrder == <<"runtime", "credentials", "expiry", "ssh">>

RuntimeMissingMessage ==
    "Docker is required to run the agent sandbox.\nInstall Docker Desktop: https://www.docker.com/products/docker-desktop/"

RuntimeSilentMessage == "Docker daemon is not responding. Is Docker Desktop running?"

CredentialMessages ==
    {"Claude credentials not found.\nRun 'claude' on the host first to authenticate.",
     "Claude credentials not found in macOS Keychain or on disk.\nRun 'claude' on the host first to authenticate.",
     "macOS 'security' command not found.",
     "Timed out reading Claude credentials from Keychain."}

ExpiredMessage ==
    "Claude OAuth token has expired.\nRun 'claude' in your terminal to re-authenticate, then retry."

SshWarning == "WARNING: SSH_AUTH_SOCK not set. Git operations requiring SSH keys will fail."

\* the text holds part somewhere
Contains(text, part) == \E i \in 1..(Len(text) + 1) : StartsAt(text, i, part)

\* C16: validate_credentials evaluates runtime, credential presence, token
\* expiry and SSH socket in this order and stops at the first fatal failure:
\* when it returns not valid, the checks evaluated are a beginning of the
\* order, the message is not empty and is the message of the last check
\* evaluated alone, with no warning in it; a runtime that is missing or
\* silent stops it at the first check.
C16_FirstFatalFailureAlone ==
    (call.op = "validate_credentials" /\ ~ret.raised) =>
        LET valid == ret.value[1]
            message == ret.value[2]
            n == Len(host.checked)
        IN  /\ n \in 1..Len(CheckOrder)
            /\ host.checked = SubSeq(CheckOrder, 1, n)
            /\ valid => n = Len(CheckOrder)
            /\ host.docker \in {"missing", "timeout"} => (~valid /\ n = 1)
            /\ ~valid =>
                   /\ message # ""
                   /\ n < Len(CheckOrder)
                   /\ ~Contains(message, "WARNING")
                   /\ CheckOrder[n] = "runtime"
                          => /\ host.docker # "ok"
                             /\ message \in {RuntimeMissingMessage, RuntimeSilentMessage}
                   /\ CheckOrder[n] = "credentials"
                          => (host.credentials = None /\ message \in CredentialMessages)
                   /\ CheckOrder[n] = "expiry"
                          => /\ host.credentials # None
                             /\ \/ message = ExpiredMessage
                                \/ startswith(message, "Failed to read credentials file: ")

\* C16 witness: on a host with no SSH socket validate_credentials has
\* stopped at the missing credentials
C16_Witness ==
    /\ call.op = "validate_credentials"
    /\ ret = Return(<<FALSE, "Claude credentials not found.\nRun 'claude' on the host first to authenticate.">>)
    /\ host.checked = <<"runtime", "credentials">>
    /\ environ_get(host, "SSH_AUTH_SOCK") = None
    /\ host.system = "Linux"

\* C17: validate_credentials returns valid only if "docker info" succeeded;
\* with the binary missing and with the daemon not responding it returns
\* not valid, with two different messages.
C17_RuntimeFailureIsFatal ==
    (call.op = "validate_credentials" /\ ~ret.raised) =>
        /\ ret.value[1] => host.docker = "ok"
        /\ host.docker = "missing" => ret = Return(<<FALSE, RuntimeMissingMessage>>)
        /\ host.docker = "timeout" => ret = Return(<<FALSE, RuntimeSilentMessage>>)
        /\ RuntimeMissingMessage # RuntimeSilentMessage

\* the credentials file decodes to an object
IsCredentialObject(credentials) == credentials # None /\ credentials[1].t = "object"

\* the members of the claudeAiOauth object of a credentials file, {} when
\* there is none
OAuthMembers(credentials) ==
    LET data == credentials[1].o
    IN  IF "claudeAiOauth" \in DOMAIN data /\ data["claudeAiOauth"].t = "object"
        THEN data["claudeAiOauth"].o
        ELSE EmptyDict

HasNoExpiry(credentials) == "expiresAt" \notin DOMAIN OAuthMembers(credentials)

HasIntegerExpiry(credentials) ==
    ~HasNoExpiry(credentials) /\ OAuthMembers(credentials)["expiresAt"].t = "int"

ExpiryOf(credentials) == OAuthMembers(credentials)["expiresAt"].n

\* the whole minutes in ms milliseconds, within the margin
WholeMinutes(ms) == Max({m \in 0..30 : m * 60000 <= ms})

ExpiryWarning(minutes) ==
    "WARNING: Claude OAuth token expires in ~" \o str(minutes) \o " minutes."

\* C18: _check_token_expiry on a credentials object with expiry e and clock
\* now: no expiry field gives (valid, no message); e <= now gives not valid
\* with the re-authentication message; 0 < e - now <= 30 minutes gives valid
\* with a warning carrying floor((e - now) / 60000) minutes; a later expiry
\* gives (valid, no message).
C18_ExpiryClassifiedAgainstClock ==
    (call.op = "_check_token_expiry" /\ IsCredentialObject(host.credentials)) =>
        LET c == host.credentials
            left == ExpiryOf(c) - host.now_ms
        IN  /\ HasNoExpiry(c) => ret = Return(<<TRUE, "">>)
            /\ HasIntegerExpiry(c) =>
                   /\ left <= 0 => (ret = Return(<<FALSE, ExpiredMessage>>)
                                    /\ Contains(ExpiredMessage, "re-authenticate"))
                   /\ (0 < left /\ left <= 30 * 60 * 1000)
                          => ret = Return(<<TRUE, ExpiryWarning(WholeMinutes(left))>>)
                   /\ left > 30 * 60 * 1000 => ret = Return(<<TRUE, "">>)

\* C18 witness: a token that expires in exactly 30 minutes has been checked
C18_Witness ==
    /\ call.op = "_check_token_expiry"
    /\ IsCredentialObject(host.credentials)
    /\ HasIntegerExpiry(host.credentials)
    /\ ExpiryOf(host.credentials) - host.now_ms = 1800000
    /\ ret = Return(<<TRUE, "WARNING: Claude OAuth token expires in ~30 minutes.">>)

\* C18 witness of the last millisecond before a whole minute
C18_FloorWitness ==
    /\ call.op = "_check_token_expiry"
    /\ IsCredentialObject(host.credentials)
    /\ HasIntegerExpiry(host.credentials)
    /\ ExpiryOf(host.credentials) - host.now_ms = 59999
    /\ ret = Return(<<TRUE, "WARNING: Claude OAuth token expires in ~0 minutes.">>)

\* C19: when the runtime answered, the credentials are there and the token
\* check passed, validate_credentials returns valid; without SSH_AUTH_SOCK,
\* or with an empty one, its message is the token warning, a newline and the
\* SSH warning, or the SSH warning alone when there is no token warning;
\* with SSH_AUTH_SOCK set its message is the token warning, or empty.
C19_SshWarningAppended ==
    LET token == _check_token_expiry(host.credentials, host.now_ms)
        sock == environ_get(host, "SSH_AUTH_SOCK")
    IN  (/\ call.op = "validate_credentials"
         /\ host.docker = "ok"
         /\ host.credentials # None
         /\ ~token.raised
         /\ token.value[1])
        => /\ (sock = None \/ sock = Some(""))
                  => ret = Return(<<TRUE, IF token.value[2] = "" THEN SshWarning
                                          ELSE token.value[2] \o "\n" \o SshWarning>>)
           /\ (sock # None /\ sock # Some(""))
                  => ret = Return(<<TRUE, token.value[2]>>)

\* C19 witness: a token warning followed by the SSH warning
C19_Witness ==
    /\ call.op = "validate_credentials"
    /\ host.docker = "ok"
    /\ environ_get(host, "SSH_AUTH_SOCK") = Some("")
    /\ ret = Return(<<TRUE, "WARNING: Claude OAuth token expires in ~1 minutes.\nWARNING: SSH_AUTH_SOCK not set. Git operations requiring SSH keys will fail.">>)

----------------------------------------------------------------------------
(* The sandbox command of src/keywork/tui/sandbox.py: the per-repo        *)
(* sandbox configuration and the docker run command built from it.        *)

IMAGE_NAME == "keywork-sandbox"

SANDBOX_DIR == "agents/sandbox"

\* str(Path.cwd()) and str(Path.home()) of the process
cwd == "/srv/keywork"

home == "/home/dev"

\* an ordered dict as the sequence of its <<key, value>> items: d[key] = value
\* keeps the place of a key already there and puts a new key last
OrderedSet(d, key, value) ==
    IF \E i \in 1..Len(d) : d[i][1] = key
    THEN [i \in 1..Len(d) |-> IF d[i][1] = key THEN <<key, value>> ELSE d[i]]
    ELSE Append(d, <<key, value>>)

\* a re.MULTILINE pattern made of heading and \s*$, after ^\s+ when indented
\* and after ^ otherwise, tried at line start i of text: where the match
\* ends (the index after it), 0 without a match.  \s runs over newlines.
SectionMatchEnd(text, i, heading, indented) ==
    LET w == IF indented THEN Scan(text, i, Spaces, FALSE) ELSE i
        from == w + Len(heading)
        run == Scan(text, from, Spaces, FALSE)
        ends == {p \in from..run : p = Len(text) + 1 \/ Ch(text, p) = "\n"}
    IN  IF (indented /\ w = i) \/ ~StartsAt(text, w, heading) \/ ends = {} THEN 0
        ELSE CHOOSE p \in ends : \A q \in ends : q <= p

\* re.search of that pattern in text: the index after the first match, 0
\* without a match
SectionSearch(text, heading, indented) ==
    LET at == {i \in LineStarts(text) : SectionMatchEnd(text, i, heading, indented) > 0}
    IN  IF at = {} THEN 0
        ELSE SectionMatchEnd(text, CHOOSE i \in at : \A j \in at : i <= j, heading, indented)

\* re.match(r"^\s+(\w+):\s*(.+)$", line): None, or the item of env_vars
EnvEntry(line) ==
    LET w == Scan(line, 1, Spaces, FALSE)
        k == Scan(line, w, WordChars, FALSE)
    IN  IF w > 1 /\ k > w /\ StartsAt(line, k, ":") /\ k < Len(line)
        THEN Some(<<SubSeq(line, w, k - 1), strip(From(line, k + 1))>>)
        ELSE None

\* re.match(r"^\s+-\s+(.+)$", line): None, or the volume
VolumeEntry(line) ==
    LET w == Scan(line, 1, Spaces, FALSE)
    IN  IF w > 1 /\ StartsAt(line, w, "-") /\ w + 2 <= Len(line) /\ Ch(line, w + 1) \in Spaces
        THEN Some(strip(From(line, w + 1)))
        ELSE None

\* re.match(r"^\s+-\s+(\d+)", line): None, or the port as an integer
PortEntry(line) ==
    LET w == Scan(line, 1, Spaces, FALSE)
        v == Scan(line, w + 1, Spaces, FALSE)
        d == Scan(line, v, Digits, FALSE)
    IN  IF w > 1 /\ StartsAt(line, w, "-") /\ v > w + 1 /\ d > v
        THEN Some(IntOf(SubSeq(line, v, d - 1)))
        ELSE None

EntryOf(section, line) ==
    CASE section = "env_vars" -> EnvEntry(line)
      [] section = "volumes" -> VolumeEntry(line)
      [] section = "ports" -> PortEntry(line)

\* the loop over the lines below a section heading, from line i on: an empty
\* line is passed over, a line that does not start with six spaces ends the
\* loop, any other line gives its entry when it matches
RECURSIVE EntriesFrom(_, _, _)
EntriesFrom(section, lines, i) ==
    IF i > Len(lines) THEN <<>>
    ELSE IF strip(lines[i]) = "" THEN EntriesFrom(section, lines, i + 1)
    ELSE IF ~startswith(lines[i], "      ") THEN <<>>
    ELSE EntryOf(section, lines[i]) \o EntriesFrom(section, lines, i + 1)

\* the entries below the heading of section in sandbox_text
SectionEntries(sandbox_text, section) ==
    LET end == SectionSearch(sandbox_text, section \o ":", TRUE)
    IN  IF end = 0 THEN <<>>
        ELSE EntriesFrom(section, splitlines(From(sandbox_text, end)), 1)

RECURSIVE DictOf(_)
DictOf(items) ==
    IF items = <<>> THEN <<>>
    ELSE LET before == DictOf(SubSeq(items, 1, Len(items) - 1))
         IN  OrderedSet(before, items[Len(items)][1], items[Len(items)][2])

_read_repo_config(repo_name) ==
    LET config_path == Join(Join("agents/repos", repo_name), "config.yaml")
    IN  IF ~exists(config_path) THEN EmptyDict
        ELSE LET content == read_text(config_path)
                 sandbox_end == SectionSearch(content, "sandbox:", FALSE)
                 after == From(content, sandbox_end)
                 tops == {i \in LineStarts(after) : i <= Len(after) /\ Ch(after, i) \notin Spaces}
                 sandbox_text ==
                     IF tops = {} THEN after
                     ELSE SubSeq(after, 1, (CHOOSE i \in tops : \A j \in tops : i <= j) - 1)
             IN  IF sandbox_end = 0
                 THEN [env_vars |-> <<>>, volumes |-> <<>>, ports |-> <<>>]
                 ELSE [env_vars |-> DictOf(SectionEntries(sandbox_text, "env_vars")),
                       volumes |-> SectionEntries(sandbox_text, "volumes"),
                       ports |-> SectionEntries(sandbox_text, "ports")]

\* cmd.extend([flag, value]) for each value
RECURSIVE Options(_, _)
Options(flag, values) ==
    IF values = <<>> THEN <<>>
    ELSE <<flag, values[1]>> \o Options(flag, Tail(values))

\* f"{key}={val}" for each item of an ordered dict
Assignments(d) == [i \in 1..Len(d) |-> d[i][1] \o "=" \o d[i][2]]

\* f"{port}:{port}" for each port
Mappings(ports) == [i \in 1..Len(ports) |-> str(ports[i]) \o ":" \o str(ports[i])]

\* the part of the command that comes from the repo's config
RepoConfigOptions(repo_name) ==
    IF repo_name = "" THEN <<>>
    ELSE LET repo_config == _read_repo_config(repo_name)
         IN  Options("-e", Assignments(get(repo_config, "env_vars", <<>>)))
             \o Options("-v", get(repo_config, "volumes", <<>>))
             \o Options("-p", Mappings(get(repo_config, "ports", <<>>)))

EnvironmentOptions_fileFirst(h, a) ==
    LET set(v) == v # None /\ v # Some("")
        passed(var) == IF set(environ_get(h, var))
                       THEN <<"-e", var \o "=" \o environ_get(h, var)[1]>> ELSE <<>>
        env_file == Join(SANDBOX_DIR, ".env")
    IN  (IF exists(env_file) THEN <<"--env-file", env_file>> ELSE <<>>)
        \o <<"-e", "KEYWORK_SANDBOX=1">>
        \o (IF a.repo_name # "" THEN <<"-e", "REPO_NAME=" \o a.repo_name>> ELSE <<>>)
        \o (IF a.goal_name # "" THEN <<"-e", "GOAL_NAME=" \o a.goal_name>> ELSE <<>>)
        \o passed("GIT_AUTHOR_NAME")
        \o passed("GIT_AUTHOR_EMAIL")
        \o Options("-p", Mappings(a.extra_ports))
        \o Options("-e", Assignments(a.env_overrides))
        \o RepoConfigOptions(a.repo_name)

\* the environment part of the command on host h, from the core variables
\* to the repo's config, in the order build_sandbox_command extends cmd
EnvironmentOptions(h, a) ==
    LET set(v) == v # None /\ v # Some("")
        passed(var) == IF set(environ_get(h, var))
                       THEN <<"-e", var \o "=" \o environ_get(h, var)[1]>> ELSE <<>>
        env_file == Join(SANDBOX_DIR, ".env")
    IN  <<"-e", "KEYWORK_SANDBOX=1">>
        \o (IF a.repo_name # "" THEN <<"-e", "REPO_NAME=" \o a.repo_name>> ELSE <<>>)
        \o (IF a.goal_name # "" THEN <<"-e", "GOAL_NAME=" \o a.goal_name>> ELSE <<>>)
        \o passed("GIT_AUTHOR_NAME")
        \o passed("GIT_AUTHOR_EMAIL")
        \o (IF exists(env_file) THEN <<"--env-file", env_file>> ELSE <<>>)
        \o Options("-p", Mappings(a.extra_ports))
        \o Options("-e", Assignments(a.env_overrides))
        \o RepoConfigOptions(a.repo_name)

ImageAndCommand_optionsLast(a) == <<IMAGE_NAME, "bash", a.script>> \o a.args \o <<"-e", "DONE=1">>

\* the image and the command run in it
ImageAndCommand(a) == <<IMAGE_NAME, "bash", a.script>> \o a.args

\* build_sandbox_command on host h, where uuid4 gave container_name; a is
\* the record of the arguments, extra_ports and args being sequences (None
\* is the empty one) and env_overrides an ordered dict
build_sandbox_command(h, a, container_name) ==
    LET set(v) == v # None /\ v # Some("")
        ssh_sock == environ_get(h, "SSH_AUTH_SOCK")
        cmd ==
            <<"docker", "run", "--rm", "--name", container_name>>
            \o (IF a.interactive THEN <<"-it">> ELSE <<>>)
            \o <<"-v", (IF a.repo_name # "" THEN Join(Join(cwd, "workspace"), a.repo_name)
                        ELSE Join(cwd, "workspace")) \o ":/workspace">>
            \o (IF a.goal_name # ""
                THEN <<"-v", Join(Join(cwd, "agents/goals"), a.goal_name) \o ":/state">>
                ELSE <<>>)
            \o <<"-v", Join(cwd, "agents") \o ":/agents:ro">>
            \o <<"-v", Join(home, ".claude") \o ":/home/agent/.claude-host:ro">>
            \o <<"-v", "keywork-cache:/home/agent/.cache/uv">>
            \o (IF set(ssh_sock)
                THEN <<"-v", IF h.system = "Darwin"
                             THEN "/run/host-services/ssh-auth.sock:/ssh-agent:ro"
                             ELSE ssh_sock[1] \o ":/ssh-agent:ro",
                       "-e", "SSH_AUTH_SOCK=/ssh-agent">>
                ELSE <<>>)
            \o EnvironmentOptions(h, a)
            \o ImageAndCommand(a)
    IN  Return(<<cmd, container_name>>)

\* the names uuid4 can give, two of them
ContainerNames == {"keywork-agent-0a1b2c3d", "keywork-agent-ffffffff"}

ReadRepoConfig(repo_name) ==
    Called("_read_repo_config", <<repo_name>>, Return(_read_repo_config(repo_name)))

BuildSandboxCommand(a) ==
    \E container_name \in ContainerNames :
        Called("build_sandbox_command", a, build_sandbox_command(host, a, container_name))

----------------------------------------------------------------------------
(* SpecSandbox: a repo x with any config.yaml of a few lines, or one of    *)
(* three whole configs on any host of a few kinds; _read_repo_config and     *)
(* build_sandbox_command are called.                                       *)

\* config.yaml has at most MaxSandboxPieces pieces below its first lines
MaxSandboxPieces == 2

SandboxHeads == {"sandbox:\n", "name: web\nsandbox: \n"}

SandboxPieces ==
    {"  env_vars:\n      A: 2\n", "  env_vars:\n    A: 2\n", "      B: 3 \n",
     "  volumes:\n      - /h:/c\n",
     "  ports:\n      - 8080 # web\n", "  ports:\n    - 8080\n",
     "\n", "name: web\n"}

\* the config written as the docstring of _read_repo_config gives it
DocumentedConfig ==
    "sandbox:\n  env_vars:\n    A: 2\n  volumes:\n    - /h:/c\n  ports:\n    - 8080\n"

\* the same with its entries below six spaces
DeepConfig ==
    "sandbox:\n  env_vars:\n      A: 2\n  volumes:\n      - /h:/c\n  ports:\n      - 8080\n"

SandboxEnvirons ==
    {[n \in {} |-> ""],
     [n \in {"SSH_AUTH_SOCK"} |-> ""],
     [n \in {"SSH_AUTH_SOCK"} |-> "/tmp/ssh-agent.sock"],
     [n \in {"GIT_AUTHOR_NAME", "GIT_AUTHOR_EMAIL"} |->
         IF n = "GIT_AUTHOR_NAME" THEN "Ada" ELSE "ada@example.org"],
     [n \in {"SSH_AUTH_SOCK", "GIT_AUTHOR_NAME", "GIT_AUTHOR_EMAIL"} |->
         IF n = "SSH_AUTH_SOCK" THEN "/tmp/ssh-agent.sock"
         ELSE IF n = "GIT_AUTHOR_NAME" THEN "Ada" ELSE ""]}

\* the calls of build_sandbox_command tried
Invocations ==
    {[script |-> "run.sh", args |-> <<>>, repo_name |-> repo_name, goal_name |-> "y",
      interactive |-> FALSE, extra_ports |-> <<3000>>, env_overrides |-> <<<<"A", "1">>>>] :
         repo_name \in {"x", ""}}
    \cup {[script |-> "/agents/build.sh", args |-> <<"-v", "T1">>, repo_name |-> "x",
           goal_name |-> "", interactive |-> TRUE, extra_ports |-> <<>>,
           env_overrides |-> <<>>],
          [script |-> "run.sh", args |-> <<"T1">>, repo_name |-> "x",
           goal_name |-> "y", interactive |-> TRUE, extra_ports |-> <<3000, 8080>>,
           env_overrides |-> <<<<"B", "0">>, <<"A", "1">>>>]}

RepoConfigPath == "agents/repos/x/config.yaml"

InitSandbox ==
    /\ rootExists = TRUE
    /\ listing = <<>>
    /\ dirs = {}
    /\ call = NoCall
    /\ ret = Return(<<>>)
    /\ \/ /\ host = NoHost
          /\ \/ files = NoFiles
             \/ \E head \in SandboxHeads, text \in TextsOf(SandboxPieces, MaxSandboxPieces) :
                    files = [p \in {RepoConfigPath} |-> head \o text]
       \/ \E system \in {"Darwin", "Linux"}, environ \in SandboxEnvirons,
             config \in {DocumentedConfig, DeepConfig, "name: web\n"}, env_file \in BOOLEAN :
              /\ host = [NoHost EXCEPT !.system = system, !.environ = environ]
              /\ files = [p \in {RepoConfigPath}
                                \cup (IF env_file THEN {Join(SANDBOX_DIR, ".env")} ELSE {}) |->
                             IF p = RepoConfigPath THEN config ELSE "TERM=xterm\n"]

NextSandbox ==
    \/ ReadRepoConfig("x")
    \/ \E a \in Invocations : BuildSandboxCommand(a)

SpecSandbox == InitSandbox /\ [][NextSandbox]_vars

----------------------------------------------------------------------------
(* What a repo's config.yaml declares, read as the indented document it   *)
(* is: the sandbox: section runs to the next line that is not indented,   *)
(* and the entries of env_vars:, volumes: and ports: are the lines below  *)
(* the heading that are indented deeper than it.                          *)

RepoConfigOf(repo_name) == Join(Join("agents/repos", repo_name), "config.yaml")

IsHeading(l, heading) == startswith(l, heading) /\ strip(From(l, Len(heading) + 1)) = ""

SandboxSection(content) ==
    LET lines == splitlines(content)
        heads == {i \in 1..Len(lines) : IsHeading(lines[i], "sandbox:")}
    IN  IF heads = {} THEN <<>>
        ELSE LET h == Min(heads)
                 tops == {i \in (h + 1)..Len(lines) :
                              lines[i] # "" /\ Ch(lines[i], 1) \notin Spaces}
             IN  SubSeq(lines, h + 1, IF tops = {} THEN Len(lines) ELSE Min(tops) - 1)

DeclaredUnder(section, heading) ==
    LET at == {i \in 1..Len(section) :
                   Indent(section[i]) > 0 /\ IsHeading(lstrip(section[i]), heading)}
    IN  IF at = {} THEN <<>>
        ELSE LET e == Min(at)
                 stops == {j \in (e + 1)..Len(section) :
                               /\ strip(section[j]) # ""
                               /\ Indent(section[j]) <= Indent(section[e])}
                 last == IF stops = {} THEN Len(section) ELSE Min(stops) - 1
                 Entry(l) == strip(l) # ""
             IN  SelectSeq(SubSeq(section, e + 1, last), Entry)

\* the text of a list item "- text", without what follows a " #"
ItemText(l) ==
    LET text == strip(From(strip(l), 2))
        marks == {i \in 1..Len(text) : StartsAt(text, i, " #")}
    IN  IF marks = {} THEN text ELSE strip(SubSeq(text, 1, Min(marks) - 1))

DeclaredEnvVars(content) ==
    LET entries == SelectSeq(DeclaredUnder(SandboxSection(content), "env_vars:"), IsLeaf)
    IN  DictOf([i \in 1..Len(entries) |-> <<KeyOf(entries[i]), ValueOf(entries[i])>>])

DeclaredVolumes(content) ==
    LET entries == SelectSeq(DeclaredUnder(SandboxSection(content), "volumes:"), IsListItem)
    IN  [i \in 1..Len(entries) |-> ItemText(entries[i])]

DeclaredPorts(content) ==
    LET entries == SelectSeq(DeclaredUnder(SandboxSection(content), "ports:"), IsListItem)
    IN  [i \in 1..Len(entries) |-> ItemText(entries[i]) \o ":" \o ItemText(entries[i])]

\* the options the config of repo_name declares, in the order of the layers
DeclaredOptions(repo_name) ==
    IF repo_name = "" \/ ~exists(RepoConfigOf(repo_name)) THEN <<>>
    ELSE LET content == read_text(RepoConfigOf(repo_name))
         IN  Options("-e", Assignments(DeclaredEnvVars(content)))
             \o Options("-v", DeclaredVolumes(content))
             \o Options("-p", DeclaredPorts(content))

CallerOptions(a) ==
    Options("-p", Mappings(a.extra_ports)) \o Options("-e", Assignments(a.env_overrides))

EndsWith(s, t) == Len(s) >= Len(t) /\ SubSeq(s, Len(s) - Len(t) + 1, Len(s)) = t

\* C20: every command build_sandbox_command returns ends with the caller's
\* extra ports and environment overrides, then the -e, -v and -p options of
\* everything the repo's config declares, then the image, bash, the script
\* and the args; with an empty repo name or without a config file the
\* caller's options are followed by the image at once.
C20_RepoConfigLayeredLast ==
    call.op = "build_sandbox_command"
        => EndsWith(ret.value[1],
                    CallerOptions(call.arg) \o DeclaredOptions(call.arg.repo_name)
                    \o <<IMAGE_NAME, "bash", call.arg.script>> \o call.arg.args)

----------------------------------------------------------------------------
(* The layers of the environment in a command, each as the set of its     *)
(* options, and where the options of a layer stand in the command.        *)

PairsAt(cmd, option) ==
    {i \in 1..(Len(cmd) - 1) : cmd[i] = option[1] /\ cmd[i + 1] = option[2]}

PositionsOf(cmd, layer) == UNION {PairsAt(cmd, option) : option \in layer}

EnvFileLayer == {<<"--env-file", Join(SANDBOX_DIR, ".env")>>}

CoreLayer(a) ==
    {<<"-e", "KEYWORK_SANDBOX=1">>}
    \cup (IF a.repo_name # "" THEN {<<"-e", "REPO_NAME=" \o a.repo_name>>} ELSE {})
    \cup (IF a.goal_name # "" THEN {<<"-e", "GOAL_NAME=" \o a.goal_name>>} ELSE {})

IdentityLayer ==
    {<<"-e", var \o "=" \o host.environ[var]>> :
        var \in {"GIT_AUTHOR_NAME", "GIT_AUTHOR_EMAIL"} \cap DOMAIN host.environ}

CallerLayer(a) ==
    {<<"-e", Assignments(a.env_overrides)[i]>> : i \in 1..Len(a.env_overrides)}

RepoLayer(a) ==
    IF a.repo_name = "" \/ ~exists(RepoConfigOf(a.repo_name)) THEN {}
    ELSE LET env == Assignments(DeclaredEnvVars(read_text(RepoConfigOf(a.repo_name))))
         IN  {<<"-e", env[i]>> : i \in 1..Len(env)}

\* every option of an earlier layer stands before every option of a later one
LayersInOrder(cmd, layers) ==
    \A m, n \in 1..Len(layers) :
        m < n => \A i \in PositionsOf(cmd, layers[m]), j \in PositionsOf(cmd, layers[n]) : i < j

\* C21 as stated: in every command the options of the layers stand in the
\* order env-file, core variables, identity passthrough, caller overrides,
\* repo config: an option of an earlier layer is before every option of a
\* later layer.
C21_LayersInPrecedenceOrder ==
    call.op = "build_sandbox_command"
        => LayersInOrder(ret.value[1],
                         <<EnvFileLayer, CoreLayer(call.arg), IdentityLayer,
                           CallerLayer(call.arg), RepoLayer(call.arg)>>)

\* C21 amended: in every command the options of the layers stand in the
\* order core variables, identity passthrough, env-file, caller overrides,
\* repo config: an option of an earlier layer is before every option of a
\* later layer.
C21_LayersInCommandOrder ==
    call.op = "build_sandbox_command"
        => LayersInOrder(ret.value[1],
                         <<CoreLayer(call.arg), IdentityLayer, EnvFileLayer,
                           CallerLayer(call.arg), RepoLayer(call.arg)>>)

\* C21 witness: a command that holds options of all five layers
C21_Witness ==
    /\ call.op = "build_sandbox_command"
    /\ \A layer \in {EnvFileLayer, CoreLayer(call.arg), IdentityLayer,
                     CallerLayer(call.arg), RepoLayer(call.arg)} :
           PositionsOf(ret.value[1], layer) # {}
    /\ Cardinality(PositionsOf(ret.value[1], IdentityLayer)) = 2

OptionFlags == {"-v", "-e", "-p", "--env-file"}

\* the frame of a command: docker run --rm --name and the returned name
\* first, -it next exactly when interactive, tail at the end with the image
\* as its first word and nowhere before, and behind the image no option
\* other than among the caller's args
CommandFrame(tail) ==
    LET cmd == ret.value[1]
        image == Len(cmd) - Len(tail) + 1
    IN  /\ Len(cmd) >= 5 + Len(tail)
        /\ SubSeq(cmd, 1, 5) = <<"docker", "run", "--rm", "--name", ret.value[2]>>
        /\ (cmd[6] = "-it") = call.arg.interactive
        /\ EndsWith(cmd, tail)
        /\ \A i \in 1..Len(cmd) : cmd[i] = IMAGE_NAME => i >= image
        /\ \A i \in (image + 1)..Len(cmd) :
               cmd[i] \in OptionFlags => i > Len(cmd) - Len(call.arg.args)

\* C22 as stated: every command returned has that frame, ending with the
\* image, the script and the caller's args.
C22_EndsWithImageScriptArgs ==
    call.op = "build_sandbox_command"
        => CommandFrame(<<IMAGE_NAME, call.arg.script>> \o call.arg.args)

\* C22 amended: every command returned has that frame, ending with the
\* image, the word bash, the script and the caller's args.
C22_EndsWithImageBashScriptArgs ==
    call.op = "build_sandbox_command"
        => CommandFrame(<<IMAGE_NAME, "bash", call.arg.script>> \o call.arg.args)

\* C22 witness: an interactive command whose caller's args hold a -v
C22_Witness ==
    /\ call.op = "build_sandbox_command"
    /\ call.arg.interactive
    /\ call.arg.args = <<"-v", "T1">>
    /\ ret.value[1][6] = "-it"
    /\ EndsWith(ret.value[1], <<IMAGE_NAME, "bash", "/agents/build.sh", "-v", "T1">>)

\* C22 witness: a command that is not interactive
C22_PlainWitness ==
    /\ call.op = "build_sandbox_command"
    /\ ~call.arg.interactive
    /\ ret.value[1][6] = "-v"

----------------------------------------------------------------------------
(* The terminal sessions of src/keywork/tui/terminal.py.  The host is the *)
(* record of what open_terminal_session looks at: platform (sys.platform),*)
(* processes (how the osascript query of the running processes ends),     *)
(* which (the binaries on PATH), environ, launch (how the spawn of each   *)
(* method ends), pid (of a process Popen starts) and attempted (what the  *)
(* last call spawned, in order).                                          *)

TerminalResult(success, method, pid, fallback_command) ==
    [success |-> success, method |-> method, pid |-> pid,
     fallback_command |-> fallback_command]

_is_macos(h) == h.platform = "darwin"

\* subprocess.run of the osascript query: the boolean returned or the
\* exception raised; any OSError but FileNotFoundError is not caught
_is_iterm2_available(h) ==
    IF ~_is_macos(h) THEN Return(FALSE)
    ELSE CASE h.processes.outcome = "ran" ->
                  Return(h.processes.returncode = 0
                         /\ \E i \in 1..Len(h.processes.stdout) :
                                StartsAt(h.processes.stdout, i, "iTerm"))
           [] h.processes.outcome \in {"missing", "timeout"} -> Return(FALSE)
           [] h.processes.outcome = "oserror" -> Raise("PermissionError")

Methods_tmuxFirst ==
    <<"tmux", "iterm2", "macos_terminal", "gnome_terminal", "x_terminal_emulator">>

\* the methods in the order open_terminal_session tries them
Methods == <<"iterm2", "macos_terminal", "gnome_terminal", "x_terminal_emulator", "tmux">>

\* the condition under which open_terminal_session launches method
Available(h, method) ==
    CASE method = "iterm2" -> IF _is_macos(h) THEN _is_iterm2_available(h) ELSE Return(FALSE)
      [] method = "macos_terminal" -> Return(_is_macos(h))
      [] method = "gnome_terminal" -> Return("gnome-terminal" \in h.which)
      [] method = "x_terminal_emulator" -> Return("x-terminal-emulator" \in h.which)
      [] method = "tmux" -> Return(environ_get(h, "TMUX") \notin {None, Some("")})

\* _launch_iterm2, _launch_macos_terminal and _launch_tmux wait for
\* subprocess.run; _launch_gnome_terminal and _launch_x_terminal_emulator
\* start the terminal with subprocess.Popen and return its pid
Launch(h, method) ==
    IF method \in {"gnome_terminal", "x_terminal_emulator"}
    THEN IF h.launch[method] = "ok"
         THEN Return(TerminalResult(TRUE, method, Some(h.pid), None))
         ELSE Return(TerminalResult(FALSE, method, None, None))
    ELSE CASE h.launch[method] = "ok" -> Return(TerminalResult(TRUE, method, None, None))
           [] h.launch[method] \in {"failed", "missing", "timeout"} ->
                  Return(TerminalResult(FALSE, method, None, None))
           [] h.launch[method] = "oserror" -> Raise("PermissionError")

_fallback(command, working_dir) ==
    TerminalResult(FALSE, "fallback", None, Some("cd " \o working_dir \o " && " \o command))

\* the blocks 1 to 5 of open_terminal_session from the i-th on, then the
\* fallback: the result, and the spawns made, after those in attempted
RECURSIVE TryFrom(_, _, _, _, _)
TryFrom(h, i, command, working_dir, attempted) ==
    IF i > Len(Methods)
    THEN [result |-> Return(_fallback(command, working_dir)), attempted |-> attempted]
    ELSE LET method == Methods[i]
             available == Available(h, method)
             queried == IF method = "iterm2" /\ _is_macos(h)
                        THEN Append(attempted, "processes") ELSE attempted
             result == Launch(h, method)
         IN  IF available.raised THEN [result |-> available, attempted |-> queried]
             ELSE IF ~available.value THEN TryFrom(h, i + 1, command, working_dir, queried)
             ELSE IF result.raised \/ result.value.success
                  THEN [result |-> result, attempted |-> Append(queried, method)]
             ELSE TryFrom(h, i + 1, command, working_dir, Append(queried, method))

open_terminal_session(h, command, title, working_dir) ==
    TryFrom(h, 1, command, IF working_dir = None THEN cwd ELSE working_dir[1], <<>>)

OpenTerminalSession(command, title, working_dir) ==
    LET done == open_terminal_session(host, command, title, working_dir)
    IN  /\ call' = [op |-> "open_terminal_session", arg |-> <<command, title, working_dir>>]
        /\ ret' = done.result
        /\ host' = [host EXCEPT !.attempted = done.attempted]
        /\ UNCHANGED <<rootExists, listing, dirs, files>>

----------------------------------------------------------------------------
(* SpecTerminal: any host of a few kinds, on which open_terminal_session  *)
(* is called.                                                             *)

RunOutcomes == {"ok", "failed", "missing", "timeout", "oserror"}

PopenOutcomes == {"ok", "missing", "oserror"}

ProcessQueries ==
    {[outcome |-> "ran", returncode |-> 0, stdout |-> "Finder, iTerm2, Dock\n"],
     [outcome |-> "ran", returncode |-> 0, stdout |-> "Finder, Dock\n"],
     [outcome |-> "ran", returncode |-> 1, stdout |-> "iTerm2\n"],
     [outcome |-> "missing", returncode |-> 0, stdout |-> ""],
     [outcome |-> "timeout", returncode |-> 0, stdout |-> ""],
     [outcome |-> "oserror", returncode |-> 0, stdout |-> ""]}

\* on macOS any outcome of the osascript calls; elsewhere there is no osascript
MacHosts ==
    {[platform |-> "darwin", processes |-> q, iterm2 |-> a, macos_terminal |-> b] :
        q \in ProcessQueries, a \in RunOutcomes, b \in RunOutcomes}
    \cup {[platform |-> "linux", processes |-> [outcome |-> "missing", returncode |-> 0, stdout |-> ""],
           iterm2 |-> "missing", macos_terminal |-> "missing"]}

\* a binary on PATH and how its spawn ends; a binary not on PATH is missing
PathHosts ==
    {[which |-> w, gnome_terminal |-> g, x_terminal_emulator |-> x] :
        w \in SUBSET {"gnome-terminal", "x-terminal-emulator"},
        g \in PopenOutcomes, x \in PopenOutcomes}

TmuxEnvirons ==
    {[n \in {} |-> ""], [n \in {"TMUX"} |-> ""],
     [n \in {"TMUX"} |-> "/tmp/tmux-1000/default,4242,0"]}

InitTerminal ==
    /\ rootExists = TRUE
    /\ listing = <<>>
    /\ dirs = {}
    /\ files = NoFiles
    /\ call = NoCall
    /\ ret = Return(<<>>)
    /\ \E m \in MacHosts, p \in PathHosts, environ \in TmuxEnvirons, tmux \in RunOutcomes :
          /\ "gnome-terminal" \notin p.which => p.gnome_terminal = "missing"
          /\ "x-terminal-emulator" \notin p.which => p.x_terminal_emulator = "missing"
          /\ host = [platform |-> m.platform, processes |-> m.processes, which |-> p.which,
                     environ |-> environ,
                     launch |-> [iterm2 |-> m.iterm2, macos_terminal |-> m.macos_terminal,
                                 gnome_terminal |-> p.gnome_terminal,
                                 x_terminal_emulator |-> p.x_terminal_emulator,
                                 tmux |-> tmux],
                     pid |-> 4242, attempted |-> <<>>]

NextTerminal ==
    \E command \in {"docker run --rm -it keywork-sandbox bash run.sh"},
       working_dir \in {None, Some("/work")} :
        OpenTerminalSession(command, "Keywork Agent", working_dir)

SpecTerminal == InitTerminal /\ [][NextTerminal]_vars

----------------------------------------------------------------------------
(* The terminal methods as the contract names them: their order, when a   *)
(* method is available on the host and when its launch succeeds.          *)

TerminalOrder == <<"iterm2", "macos_terminal", "gnome_terminal", "x_terminal_emulator", "tmux">>

RankOf(method) == CHOOSE i \in 1..Len(TerminalOrder) : TerminalOrder[i] = method

ITermRunning ==
    /\ host.processes.outcome = "ran"
    /\ host.processes.returncode = 0
    /\ Contains(host.processes.stdout, "iTerm")

IsAvailable(method) ==
    CASE method = "iterm2" -> host.platform = "darwin" /\ ITermRunning
      [] method = "macos_terminal" -> host.platform = "darwin"
      [] method = "gnome_terminal" -> "gnome-terminal" \in host.which
      [] method = "x_terminal_emulator" -> "x-terminal-emulator" \in host.which
      [] method = "tmux" -> "TMUX" \in DOMAIN host.environ /\ host.environ["TMUX"] # ""

LaunchSucceeds(method) == host.launch[method] = "ok"

\* the methods the last call launched, in order, without the process query
Launched == SelectSeq(host.attempted, LAMBDA m : m # "processes")

\* C23: every method open_terminal_session launches is available, the
\* launches are made in the fixed order, and a successful result names the
\* first method in that order that is available and whose launch succeeds,
\* which is the last method launched.
C23_FirstAvailableSuccessWins ==
    call.op = "open_terminal_session"
        => /\ \A k \in 1..Len(Launched) : IsAvailable(Launched[k])
           /\ \A j, k \in 1..Len(Launched) : j < k => RankOf(Launched[j]) < RankOf(Launched[k])
           /\ (~ret.raised /\ ret.value.success)
                  => /\ IsAvailable(ret.value.method) /\ LaunchSucceeds(ret.value.method)
                     /\ \A i \in 1..(RankOf(ret.value.method) - 1) :
                            ~(IsAvailable(TerminalOrder[i]) /\ LaunchSucceeds(TerminalOrder[i]))
                     /\ Launched[Len(Launched)] = ret.value.method

\* C23 witness: tmux succeeds after Terminal.app and gnome-terminal failed,
\* x-terminal-emulator not being on PATH
C23_Witness ==
    /\ call.op = "open_terminal_session"
    /\ ~ret.raised /\ ret.value.success /\ ret.value.method = "tmux"
    /\ host.attempted = <<"processes", "macos_terminal", "gnome_terminal", "tmux">>
    /\ ~IsAvailable("x_terminal_emulator")

\* C23 witness: outside a tmux session tmux is not launched though its
\* launch would succeed
C23_NoTmuxWitness ==
    /\ call.op = "open_terminal_session"
    /\ LaunchSucceeds("tmux") /\ ~IsAvailable("tmux")
    /\ ~ret.raised /\ ret.value.method = "fallback"

WorkingDirectory == IF call.arg[3] = None THEN cwd ELSE call.arg[3][1]

\* C24: when no method is both available and launched with success the
\* call returns success=False, method fallback and the fallback command
\* cd <working directory> && <command>; a successful result names another
\* method than fallback and has no fallback command.
C24_FallbackWhenNoneSucceeds ==
    call.op = "open_terminal_session"
        => /\ (\A i \in 1..Len(TerminalOrder) :
                   ~(IsAvailable(TerminalOrder[i]) /\ LaunchSucceeds(TerminalOrder[i])))
                  => /\ ~ret.raised
                     /\ ret.value = TerminalResult(FALSE, "fallback", None,
                                        Some("cd " \o WorkingDirectory \o " && " \o call.arg[1]))
           /\ (~ret.raised /\ ret.value.success)
                  => ret.value.method # "fallback" /\ ret.value.fallback_command = None

\* C25: open_terminal_session returns a TerminalResult whatever the
\* outcome of each spawn is, and never raises.
C25_NeverThrows ==
    call.op = "open_terminal_session" => ~ret.raised

----------------------------------------------------------------------------
(* The repo snapshot of src/keywork/tui/state.py.  Paths below GOALS_DIR  *)
(* are kept relative to it, as before; the repo's config.yaml and its     *)
(* workspace are kept by their paths from the working directory.          *)

REPOS_DIR == "agents/repos"

WORKSPACE_DIR == "workspace"

RepoState(name, language, framework, remote, branch, priority, initialized, active_goals, path) ==
    [name |-> name, language |-> language, framework |-> framework, remote |-> remote,
     branch |-> branch, priority |-> priority, initialized |-> initialized,
     active_goals |-> active_goals, path |-> path]

\* Path.name: what follows the last "/"
PathName(path) ==
    LET slashes == {i \in 1..Len(path) : Ch(path, i) = "/"}
    IN  IF slashes = {} THEN path
        ELSE From(path, (CHOOSE i \in slashes : \A j \in slashes : j <= i) + 1)

\* the loop of load_repo_config over the entries ds of GOALS_DIR
RECURSIVE ActiveGoalsFrom(_, _, _)
ActiveGoalsFrom(ds, name, active_goals) ==
    IF ds = <<>> THEN active_goals
    ELSE IF Skipped(Head(ds)) THEN ActiveGoalsFrom(Tail(ds), name, active_goals)
    ELSE IF get(parse_state_md(Join(Head(ds), "state.md")), "repo", "") = name
         THEN ActiveGoalsFrom(Tail(ds), name, active_goals + 1)
    ELSE ActiveGoalsFrom(Tail(ds), name, active_goals)

\* workspace_path.exists() and workspace_path.is_dir()
Initialized(repo_dir) ==
    LET workspace_path == Join(WORKSPACE_DIR, PathName(repo_dir))
    IN  (exists(workspace_path) \/ is_dir(workspace_path)) /\ is_dir(workspace_path)

load_repo_config(repo_dir) ==
    LET config == parse_config_yaml(Join(repo_dir, "config.yaml"))
        name == PathName(repo_dir)
        active_goals == IF rootExists THEN ActiveGoalsFrom(iterdir, name, 0) ELSE 0
    IN  RepoState(name,
                  get(config, "language", Str("")),
                  get(config, "framework", Str("")),
                  get(config, "remote", Str("")),
                  get(config, "branch", Str("main")),
                  get(config, "priority", Str("normal")),
                  Initialized(repo_dir),
                  active_goals,
                  repo_dir)

LoadRepoConfig(repo_dir) ==
    Called("load_repo_config", <<repo_dir>>, Return(load_repo_config(repo_dir)))

----------------------------------------------------------------------------
(* SpecRepos: a repo web with or without config.yaml and workspace, and a *)
(* GOALS_DIR of up to three entries of a few kinds; load_repo_config and  *)
(* load_all_goals are called.                                             *)

RepoDir == Join(REPOS_DIR, "web")

RepoConfigs ==
    {None, Some("language: python\ninitialized: true\n"),
     Some("initialized: false\nbranch: dev\n")}

\* what state.md of a goal directory of each kind holds
GoalKindState(kind) ==
    CASE kind = "web" -> Some("status: building\nrepo: web\n")
      [] kind = "api" -> Some("repo: api\n")
      [] kind = "none" -> Some("status: paused\n")
      [] kind = "broken" -> Some("repo: web\ntotal_cost_usd: n/a\n")
      [] OTHER -> None

GoalKinds == {"absent", "plain", "empty", "web", "api", "none", "broken"}

InitRepos ==
    /\ call = NoCall
    /\ ret = Return(<<>>)
    /\ host = NoHost
    /\ \E config \in RepoConfigs, workspace \in {"absent", "file", "dir"},
          alpha \in GoalKinds, beta \in GoalKinds, completed \in {"absent", "web"},
          reverse \in BOOLEAN, root \in BOOLEAN :
          LET kind == [n \in {"alpha", "beta", "_completed"} |->
                          IF ~root THEN "absent"
                          ELSE IF n = "alpha" THEN alpha
                          ELSE IF n = "beta" THEN beta ELSE completed]
              order == IF reverse THEN <<"beta", "alpha", "_completed">>
                       ELSE <<"_completed", "alpha", "beta">>
              states == {n \in DOMAIN kind : GoalKindState(kind[n]) # None}
          IN  /\ rootExists = root
              /\ listing = SelectSeq(order, LAMBDA n : kind[n] # "absent")
              /\ dirs = {n \in DOMAIN kind : kind[n] \notin {"absent", "plain"}}
                        \cup (IF workspace = "dir" THEN {Join(WORKSPACE_DIR, "web")} ELSE {})
              /\ files = [p \in {Join(n, "state.md") : n \in states}
                                \cup (IF config # None THEN {Join(RepoDir, "config.yaml")} ELSE {})
                                \cup (IF workspace = "file" THEN {Join(WORKSPACE_DIR, "web")} ELSE {}) |->
                             IF p = Join(RepoDir, "config.yaml") THEN config[1]
                             ELSE IF p = Join(WORKSPACE_DIR, "web") THEN ""
                             ELSE GoalKindState(kind[CHOOSE n \in states : Join(n, "state.md") = p])[1]]

NextRepos ==
    \/ LoadRepoConfig(RepoDir)
    \/ LoadAllGoals

SpecRepos == InitRepos /\ [][NextRepos]_vars

\* the snapshots load_all_goals returns that refer to the repo name
SnapshotsOf(name) ==
    {k \in 1..Len(load_all_goals.value) : load_all_goals.value[k].repo_name = name}

\* C26: load_repo_config returns initialized true exactly when
\* workspace/<repo> is a directory, whatever config.yaml says, and an
\* active-goal count equal to the number of snapshots load_all_goals
\* returns whose repo_name is the repo's name.
C26_InitializedFromWorkspaceCountFromSnapshots ==
    call.op = "load_repo_config"
        => /\ ret.value.initialized = (Join(WORKSPACE_DIR, ret.value.name) \in dirs)
           /\ ~load_all_goals.raised
           /\ ret.value.active_goals = Cardinality(SnapshotsOf(ret.value.name))

----------------------------------------------------------------------------
(* The Depends line that gates a review task.                             *)

\* the lines a review task at line i can be gated from: the 9 lines after
\* it, as far as no task line comes
GateWindow(lines, i) ==
    {j \in (i + 1)..Len(lines) :
        j <= i + 9 /\ \A k \in (i + 1)..j : ~IsTaskLine(lines[k])}

GateOf(lines, i) ==
    LET D == {j \in GateWindow(lines, i) : IsDependsSubLine(lines[j])}
    IN  IF D = {} THEN None ELSE Some(Min(D))

HeldBack(lines, i) ==
    /\ GateOf(lines, i) # None
    /\ ~AllDone(lines, IdsIn(DependsMatch(lines[GateOf(lines, i)[1]])[1]))

ReviewTasks(lines) == {i \in 1..Len(lines) : IsReviewTask(lines[i])}

\* a Depends sub-line below the task at line i that is not in its window
DependsOutOfReach(lines, i) ==
    {j \in (i + 1)..Len(lines) : IsDependsSubLine(lines[j]) /\ j \notin GateWindow(lines, i)}

\* C27: load_review_tasks returns as many items as there are review tasks
\* not held back by the first Depends sub-line among the 9 lines after the
\* task line and before the next task line; a review task without such a
\* sub-line is returned with its title and identifier, whatever Depends
\* lines stand after the next task line or further below.
C27_OnlyTheWindowGates ==
    call.op = "load_review_tasks"
        => LET lines == ChecklistLines
           IN  /\ Len(ret.value) = Cardinality({i \in ReviewTasks(lines) : ~HeldBack(lines, i)})
               /\ \A i \in ReviewTasks(lines) :
                      GateOf(lines, i) = None
                          => \E k \in 1..Len(ret.value) :
                                 /\ ret.value[k].title = strip(ReviewMatch(lines[i])[1])
                                 /\ ret.value[k].task_id = _parse_task_id(lines[i])

\* C27 witness: a review task is returned though a Depends line ten lines
\* below it names a task that is not done
C27_Witness ==
    /\ call.op = "load_review_tasks"
    /\ Len(ret.value) = 1
    /\ \E i \in ReviewTasks(ChecklistLines) :
          /\ GateOf(ChecklistLines, i) = None
          /\ \E j \in DependsOutOfReach(ChecklistLines, i) :
                 /\ j = i + 10
                 /\ ~AllDone(ChecklistLines, IdsIn(DependsMatch(ChecklistLines[j])[1]))

\* C27 witness: a review task is returned though a Depends line after the
\* next task line names a task that is not done
C27_NextTaskWitness ==
    /\ call.op = "load_review_tasks"
    /\ Len(ret.value) = 1
    /\ \E i \in ReviewTasks(ChecklistLines) :
          /\ GateOf(ChecklistLines, i) = None
          /\ \E j \in DependsOutOfReach(ChecklistLines, i) :
                 /\ j = i + 2
                 /\ ~AllDone(ChecklistLines, IdsIn(DependsMatch(ChecklistLines[j])[1]))

----------------------------------------------------------------------------
(* Launching sandboxes: the containers tracked for cleanup and the output  *)
(* streamed to a callback (sandbox.py).  The host holds the module-level    *)
(* list _tracked_containers as tracked, the docker command lines issued as *)
(* commands, the processes spawned (a handle is an index of processes) and *)
(* for each the lines its callback was called with, as delivered.         *)

rstrip(s) == SubSeq(s, 1, ScanBack(s, Len(s), Spaces))

\* subprocess.Popen(cmd, ...) of launch_sandboxed: a running docker run that
\* will write the chunks of output; stdout is a pipe unless the launch is
\* interactive, and thread tells where the _stream_output worker stands
Popen(cmd, piped, streamed, output) ==
    [cmd |-> cmd, output |-> output, emitted |-> "", running |-> TRUE,
     stdout |-> IF piped THEN Some("") ELSE None,
     thread |-> IF streamed THEN "started" ELSE "none", delivered |-> <<>>]

\* launch_sandboxed from the command built on: the name is tracked, then
\* the process is spawned
Spawned(h, a, cmd, container_name, spawn, output) ==
    IF spawn = "missing"
    THEN [host |-> [h EXCEPT !.tracked = Append(@, container_name),
                             !.commands = Append(@, cmd)],
          result |-> Raise("FileNotFoundError")]
    ELSE [host |-> [h EXCEPT !.tracked = Append(@, container_name),
                             !.commands = Append(@, cmd),
                             !.processes =
                                 Append(@, Popen(cmd, ~a.interactive,
                                                 ~a.interactive /\ a.on_output, output))],
          result |-> Return(Len(h.processes) + 1)]

Built(h, a, built, spawn, output) == Spawned(h, a, built[1], built[2], spawn, output)

\* launch_sandboxed: the host afterwards and what the call gives; spawn is
\* what Popen does with the command
launch_sandboxed(h, a, container_name, spawn, output) ==
    Built(h, a, build_sandbox_command(h, a, container_name).value, spawn, output)

\* a handler is run: the call, the host it leaves and what it gives
Handled(op, arg, done) ==
    /\ call' = [op |-> op, arg |-> arg]
    /\ host' = done.host
    /\ ret' = done.result
    /\ UNCHANGED <<rootExists, listing, dirs, files>>

\* a cleanup loop that gives up at the first stop that fails
RECURSIVE StopFrom_untilFailure(_, _, _)
StopFrom_untilFailure(h, names, outcomes) ==
    IF names = <<>> THEN [h EXCEPT !.tracked = <<>>]
    ELSE LET stopping == [h EXCEPT !.commands = Append(@, <<"docker", "stop", Head(names)>>)]
         IN  IF Head(outcomes) = "ok"
             THEN StopFrom_untilFailure(stopping, Tail(names), Tail(outcomes))
             ELSE stopping

\* the loop of cleanup_containers over the names not yet stopped, then the
\* clear; outcomes are what each docker stop does (ok, timeout, oserror),
\* a timeout or an OSError being logged and passed over
RECURSIVE StopFrom(_, _, _)
StopFrom(h, names, outcomes) ==
    IF names = <<>> THEN [h EXCEPT !.tracked = <<>>]
    ELSE StopFrom([h EXCEPT !.commands = Append(@, <<"docker", "stop", Head(names)>>)],
                  Tail(names), Tail(outcomes))

cleanup_containers(h, outcomes) == StopFrom(h, h.tracked, outcomes)

\* a reader that takes the newest line of the pipe
readline_newest(text, eof) ==
    LET starts == {i \in LineStarts(text) : i <= Len(text)}
        last == CHOOSE i \in starts : \A j \in starts : j <= i
    IN  IF text = "" THEN None
        ELSE IF Ch(text, Len(text)) = "\n" \/ eof
             THEN Some([line |-> From(text, last), rest |-> SubSeq(text, 1, last - 1)])
             ELSE None

\* next(process.stdout): the first line of the pipe with its newline, or
\* what is left once the writer has closed it; None while there is neither
readline(text, eof) ==
    LET n == Scan(text, 1, {"\n"}, TRUE)
    IN  IF n <= Len(text)
        THEN Some([line |-> SubSeq(text, 1, n), rest |-> From(text, n + 1)])
        ELSE IF eof /\ text # ""
             THEN Some([line |-> text, rest |-> ""])
             ELSE None

\* the process writes its next chunk of output to its pipe
Emits(h, p) ==
    LET process == h.processes[p]
        chunk == Head(process.output)
    IN  [h EXCEPT !.processes[p] =
            [process EXCEPT !.output = Tail(@), !.emitted = @ \o chunk,
                            !.stdout = Some(@[1] \o chunk)]]

\* one turn of the loop of _stream_output in the worker of process p: a line
\* goes to on_output, or the loop ends at the end of the stream
_stream_output(h, p) ==
    LET process == h.processes[p]
        read == readline(process.stdout[1], ~process.running)
    IN  IF read # None
        THEN [h EXCEPT !.processes[p] =
                 [process EXCEPT !.stdout = Some(read[1].rest),
                                 !.delivered = Append(@, rstrip(read[1].line))]]
        ELSE [h EXCEPT !.processes[p].thread = "finished"]

----------------------------------------------------------------------------
(* SpecLaunch: launches and cleanups of the main flow, with the launched   *)
(* processes writing and ending and the workers reading at any time.  A  *)
(* cleanup is recorded with what each of its docker stop calls did.       *)

\* at most MaxLaunches launches
MaxLaunches == 2

SpawnOutcomes == {"ok", "missing"}

StopOutcomes == {"ok", "timeout", "oserror"}

\* the launches tried: interactive (with a callback, which is not used),
\* piped without a callback, and streamed
Launches ==
    {[script |-> "run.sh", args |-> <<"-v">>, repo_name |-> "x", goal_name |-> "y",
      interactive |-> kind = "interactive", extra_ports |-> <<>>, env_overrides |-> <<>>,
      on_output |-> kind # "piped"] :
         kind \in {"interactive", "piped", "streamed"}}

\* what run.sh writes, chunk by chunk: two lines of which the first comes
\* in two writes and the last has no newline
Output == <<"on", "e \nend">>

\* the name uuid4 gives to the n-th container
ContainerName(n) == "keywork-agent-0a1b2c3" \o Ch("0123456789", n)

RunCommands(h) == {i \in 1..Len(h.commands) : h.commands[i][2] = "run"}

LaunchSandboxed(a) ==
    /\ Cardinality(RunCommands(host)) < MaxLaunches
    /\ \E spawn \in SpawnOutcomes :
          Handled("launch_sandboxed", a,
                  launch_sandboxed(host, a, ContainerName(Cardinality(RunCommands(host)) + 1),
                                   spawn, Output))

CleanupContainers ==
    /\ \E outcomes \in [1..Len(host.tracked) -> StopOutcomes] :
          /\ host' = cleanup_containers(host, outcomes)
          /\ call' = [op |-> "cleanup_containers", arg |-> outcomes]
    /\ ret' = Return(<<>>)
    /\ UNCHANGED <<rootExists, listing, dirs, files>>

ProcessEmits(p) ==
    /\ host.processes[p].running
    /\ host.processes[p].stdout # None
    /\ host.processes[p].output # <<>>
    /\ host' = Emits(host, p)
    /\ UNCHANGED <<rootExists, listing, dirs, files, call, ret>>

ProcessExits(p) ==
    /\ host.processes[p].running
    /\ host' = [host EXCEPT !.processes[p].running = FALSE]
    /\ UNCHANGED <<rootExists, listing, dirs, files, call, ret>>

StreamOutput(p) ==
    /\ host.processes[p].thread = "started"
    /\ \/ readline(host.processes[p].stdout[1], ~host.processes[p].running) # None
       \/ ~host.processes[p].running
    /\ host' = _stream_output(host, p)
    /\ UNCHANGED <<rootExists, listing, dirs, files, call, ret>>

InitLaunch ==
    /\ rootExists = TRUE
    /\ listing = <<>>
    /\ dirs = {}
    /\ files = NoFiles
    /\ call = NoCall
    /\ ret = Return(<<>>)
    /\ host = [system |-> "Linux", environ |-> [n \in {} |-> ""], tracked |-> <<>>,
               commands |-> <<>>, processes |-> <<>>]

NextLaunch ==
    \/ \E a \in Launches : LaunchSandboxed(a)
    \/ CleanupContainers
    \/ \E p \in 1..Len(host.processes) : ProcessEmits(p)
    \/ \E p \in 1..Len(host.processes) : ProcessExits(p)
    \/ \E p \in 1..Len(host.processes) : StreamOutput(p)

SpecLaunch == InitLaunch /\ [][NextLaunch]_vars

----------------------------------------------------------------------------
(* The tracked containers.                                                 *)

IsRun(cmd) == cmd[2] = "run"

\* the container a docker command line names
ContainerOf(cmd) == IF IsRun(cmd) THEN cmd[5] ELSE cmd[3]

\* the index of the last docker stop issued, 0 when there is none
LastStop(commands) ==
    LET stops == {i \in 1..Len(commands) : ~IsRun(commands[i])}
    IN  IF stops = {} THEN 0 ELSE CHOOSE i \in stops : \A j \in stops : j <= i

\* the names of the launches made since the last cleanup that stopped one
LaunchedSinceCleanup(commands) ==
    [i \in 1..(Len(commands) - LastStop(commands)) |->
        ContainerOf(commands[LastStop(commands) + i])]

\* commands[a..b] are the docker stops of one cleanup
StopsOfOneCleanup(commands, a, b) ==
    /\ a <= b
    /\ \A i \in a..b : ~IsRun(commands[i])
    /\ a = 1 \/ IsRun(commands[a - 1])
    /\ b = Len(commands) \/ IsRun(commands[b + 1])

\* the stops commands[a..b] name, one each and in order, the launches made
\* right before them
StopsWhatWasLaunched(commands, a, b) ==
    LET n == b - a + 1
    IN  /\ a - n >= 1
        /\ a - n = 1 \/ ~IsRun(commands[a - n - 1])
        /\ \A i \in 0..(n - 1) :
               /\ IsRun(commands[a - n + i])
               /\ ContainerOf(commands[a + i]) = ContainerOf(commands[a - n + i])

\* C28: the tracked list holds exactly the names of the launches made since
\* the last cleanup, a launch whose spawn failed included; each cleanup has
\* issued one docker stop for every name tracked, whatever the stops before
\* it did, and after a cleanup the list is empty.
C28_TrackedAreLaunchedSinceCleanup ==
    /\ host.tracked = LaunchedSinceCleanup(host.commands)
    /\ \A a, b \in 1..Len(host.commands) :
           StopsOfOneCleanup(host.commands, a, b)
               => StopsWhatWasLaunched(host.commands, a, b)
    /\ call.op = "cleanup_containers"
           => /\ host.tracked = <<>>
              /\ LastStop(host.commands) = Len(host.commands)
              /\ StopsOfOneCleanup(host.commands,
                                   Len(host.commands) - Len(call.arg) + 1, Len(host.commands))
                     \/ call.arg = <<>>

\* C28 witness: a cleanup has stopped two containers, the spawn of one of
\* which had failed, though the first stop timed out
C28_Witness ==
    /\ call.op = "cleanup_containers"
    /\ call.arg = <<"timeout", "ok">>
    /\ host.tracked = <<>>
    /\ Len(host.commands) = 4
    /\ Len(host.processes) = 1
    /\ ContainerOf(host.commands[3]) = ContainerName(1)
    /\ ContainerOf(host.commands[4]) = ContainerName(2)

----------------------------------------------------------------------------
(* The streamed output.                                                    *)

IsPrefix(s, t) == Len(s) <= Len(t) /\ SubSeq(t, 1, Len(s)) = s

\* the lines a process has emitted so far: those it has ended with a
\* newline and, once it has exited, what it wrote after the last newline
EmittedLines(process) ==
    LET all == splitlines(process.emitted)
        whole == process.emitted = "" \/ Ch(process.emitted, Len(process.emitted)) = "\n"
    IN  IF whole \/ ~process.running THEN all ELSE SubSeq(all, 1, Len(all) - 1)

Stripped(lines) == [i \in 1..Len(lines) |-> rstrip(lines[i])]

\* what the callback of a process has received is the beginning of what the
\* process has emitted, line by line, and all of it once the worker is done
DeliveredInOrder(process) ==
    /\ IsPrefix(process.delivered, Stripped(EmittedLines(process)))
    /\ process.thread = "finished"
           => ~process.running /\ process.delivered = Stripped(EmittedLines(process))
    /\ process.thread = "none" => process.delivered = <<>>

C29_StreamsInOrder == \A p \in 1..Len(host.processes) : DeliveredInOrder(host.processes[p])

\* a launch hands back the handle of a process that is still running and has
\* written nothing, with a worker of its own exactly when it is piped and
\* has a callback; the other processes and what was delivered stay as they are
C29_LaunchReturnsAtOnce ==
    Len(host'.processes) > Len(host.processes)
        => LET p == Len(host'.processes)
           IN  /\ ret' = Return(p)
               /\ host'.processes[p].running
               /\ host'.processes[p].emitted = ""
               /\ host'.processes[p].delivered = <<>>
               /\ host'.processes[p].thread = "started"
                      <=> ~call'.arg.interactive /\ call'.arg.on_output
               /\ SubSeq(host'.processes, 1, p - 1) = host.processes

\* C29: a non-interactive launch with a callback returns the handle of a
\* process that has not finished, and under every interleaving of launches,
\* cleanups, writes, exits and workers the callback of each process receives
\* the lines its process emitted, each once and in the order emitted.
C29_StreamedOnceInOrder == []C29_StreamsInOrder /\ [][C29_LaunchReturnsAtOnce]_vars

\* C29 witness: the second launch has returned and its process is running
\* with a line not yet read, its worker has delivered one line while the
\* worker of the first process, launched before, has delivered two
C29_Witness ==
    /\ call.op = "launch_sandboxed"
    /\ ret = Return(2)
    /\ Len(host.processes) = 2
    /\ host.processes[2].running
    /\ host.processes[2].delivered = <<"one">>
    /\ host.processes[2].stdout = Some("end")
    /\ host.processes[1].thread = "started"
    /\ host.processes[1].delivered = <<"one", "end">>

\* C29 witness: the worker is done and the callback has the two lines
C29_DoneWitness ==
    /\ Len(host.processes) >= 1
    /\ host.processes[1].thread = "finished"
    /\ host.processes[1].delivered = <<"one", "end">>

----------------------------------------------------------------------------
(* The dashboard's tracked processes (app.py).  The host holds the list    *)
(* _running_processes, the flag orchestrator_running, the number of        *)
(* processes spawned so far (a process is known by its number) and the set *)
(* of those that have exited.  A handler's result is what it notifies.     *)

\* RunningProcess, without its start time
RunningProcess(goal_name, action, process) ==
    [goal_name |-> goal_name, action |-> action, process |-> process]

\* process.poll(): None while the process runs
poll(h, process) == IF process \in h.exited THEN Some(0) ELSE None

any_orchestrator(running_processes) ==
    \E i \in 1..Len(running_processes) : running_processes[i].action = "orchestrator"

\* the assignments of refresh_display
Polled(h, alive) ==
    [h EXCEPT !._running_processes = alive, !.orchestrator_running = any_orchestrator(alive)]

\* None, or the exception a loader ended with
NoneOrRaised(loaded) == IF loaded.raised THEN loaded ELSE Return(None)

\* the orchestrator is appended to the list and the flag is set
Started(h, process) ==
    [h EXCEPT !.spawned = process,
              !._running_processes =
                  Append(@, RunningProcess("__orchestrator__", "orchestrator", process)),
              !.orchestrator_running = TRUE]

\* an exception of the refresh is caught and notified
RefreshedAfterStart(refreshed) ==
    [host |-> refreshed.host,
     result |-> IF refreshed.result.raised THEN Return("Orchestrator error") ELSE Return(None)]

\* refresh_display: the dead processes leave the list and the flag follows;
\* the widgets are then refreshed, which ends with the first loader that
\* raises
refresh_display(h) ==
    [host |-> Polled(h, SelectSeq(h._running_processes, LAMBDA rp : poll(h, rp.process) = None)),
     result |-> NoneOrRaised(load_all_goals)]

\* a start that does not look at the flag
action_start_orchestrator_unguarded(h, spawn) ==
    IF spawn # "ok"
    THEN [host |-> h, result |-> Return("Orchestrator error")]
    ELSE RefreshedAfterStart(refresh_display(Started(h, h.spawned + 1)))

\* action_start_orchestrator; spawn is what Popen does.  An exception of
\* Popen or of the refresh is caught and notified.
action_start_orchestrator(h, spawn) ==
    IF h.orchestrator_running
    THEN [host |-> h, result |-> Return("Orchestrator already running")]
    ELSE IF spawn # "ok"
    THEN [host |-> h, result |-> Return("Orchestrator error")]
    ELSE RefreshedAfterStart(refresh_display(Started(h, h.spawned + 1)))

\* the goals action_stop_orchestrator signals
StoppedGoals(goals) ==
    {goals[i].path : i \in {k \in 1..Len(goals) : goals[k].status \in {"building", "planning"}}}

\* files with the marker written at each of stop_files
WithStopFiles(stop_files) ==
    [p \in DOMAIN files \cup stop_files |->
        IF p \in stop_files THEN "Stopped from TUI\n" ELSE files[p]]

\* the loop of action_stop_orchestrator over the goals loaded
StopSignals(goals) ==
    IF goals.raised THEN [files |-> files, result |-> goals]
    ELSE [files |-> WithStopFiles({Join(path, ".stop") : path \in StoppedGoals(goals.value)}),
          result |-> Return("Stop signal sent")]

\* action_stop_orchestrator: the files afterwards and the result
action_stop_orchestrator(h) ==
    IF ~h.orchestrator_running
    THEN [files |-> files, result |-> Return("Orchestrator not running")]
    ELSE StopSignals(load_all_goals)

\* GoalDetailScreen._launch_background
_launch_background(h, goal_name, spawn) ==
    IF spawn # "ok"
    THEN [host |-> h, result |-> Return("Failed to launch")]
    ELSE [host |-> [h EXCEPT !.spawned = @ + 1,
                             !._running_processes =
                                 Append(@, RunningProcess(goal_name, "build", h.spawned + 1))],
          result |-> Return("Started background process for " \o goal_name)]

----------------------------------------------------------------------------
(* SpecDashboard: two goals of any status; the orchestrator is started and *)
(* stopped, builds are started, the display is refreshed by key or timer,  *)
(* and the processes exit at any time.                                     *)

\* at most MaxProcesses processes are spawned
MaxProcesses == 3

DashboardStates ==
    {"status: building\n", "status: planning\n", "status: paused\n",
     "status: building\ntotal_cost_usd: n/a\n"}

ActionStartOrchestrator ==
    /\ \E spawn \in SpawnOutcomes :
          /\ spawn = "ok" /\ ~host.orchestrator_running => host.spawned < MaxProcesses
          /\ Handled("action_start_orchestrator", <<>>, action_start_orchestrator(host, spawn))

\* the stop handler is run: it leaves files and gives a result
Signalled(done) ==
    /\ files' = done.files
    /\ ret' = done.result
    /\ call' = [op |-> "action_stop_orchestrator", arg |-> <<>>]
    /\ UNCHANGED <<rootExists, listing, dirs, host>>

ActionStopOrchestrator == Signalled(action_stop_orchestrator(host))

RefreshDisplay == Handled("refresh_display", <<>>, refresh_display(host))

LaunchBackground(goal_name) ==
    /\ \E spawn \in SpawnOutcomes :
          /\ spawn = "ok" => host.spawned < MaxProcesses
          /\ Handled("_launch_background", <<goal_name>>,
                     _launch_background(host, goal_name, spawn))

\* a spawned process ends: the last result no longer describes the host
TrackedProcessExits(process) ==
    /\ process \notin host.exited
    /\ host' = [host EXCEPT !.exited = @ \cup {process}]
    /\ call' = NoCall
    /\ ret' = Return(<<>>)
    /\ UNCHANGED <<rootExists, listing, dirs, files>>

InitDashboard ==
    /\ rootExists = TRUE
    /\ listing = <<"alpha", "beta">>
    /\ dirs = {"alpha", "beta"}
    /\ \E alpha \in DashboardStates, beta \in DashboardStates :
          files = [p \in {Join("alpha", "state.md"), Join("beta", "state.md")} |->
                      IF p = Join("alpha", "state.md") THEN alpha ELSE beta]
    /\ call = NoCall
    /\ ret = Return(<<>>)
    /\ host = [_running_processes |-> <<>>, orchestrator_running |-> FALSE,
               spawned |-> 0, exited |-> {}]

NextDashboard ==
    \/ ActionStartOrchestrator
    \/ ActionStopOrchestrator
    \/ RefreshDisplay
    \/ LaunchBackground("alpha")
    \/ \E process \in 1..host.spawned : TrackedProcessExits(process)

SpecDashboard == InitDashboard /\ [][NextDashboard]_vars

----------------------------------------------------------------------------
(* The orchestrator in the dashboard.                                      *)

Orchestrators ==
    {i \in 1..Len(host._running_processes) : host._running_processes[i].action = "orchestrator"}

\* the status state.md of a goal directory gives
GoalStatus(d) == get(parse_state_md(Join(d, "state.md")), "status", "created")

C30_AtMostOneOrchestrator ==
    /\ Cardinality(Orchestrators) <= 1
    /\ host.orchestrator_running <=> Orchestrators # {}
    /\ call.op = "refresh_display"
           => \A i \in 1..Len(host._running_processes) :
                  host._running_processes[i].process \notin host.exited

C30_Handlers ==
    /\ call'.op = "action_start_orchestrator" /\ host.orchestrator_running
           => host' = host /\ files' = files
    /\ call'.op = "refresh_display"
           => /\ host'._running_processes =
                     SelectSeq(host._running_processes, LAMBDA rp : rp.process \notin host.exited)
              /\ host'.exited = host.exited
              /\ files' = files
    /\ call'.op = "action_stop_orchestrator"
           => /\ host' = host
              /\ \A p \in DOMAIN files : p \in DOMAIN files' /\ files'[p] = files[p]
              /\ \A p \in DOMAIN files' \ DOMAIN files :
                     \E d \in dirs : /\ p = Join(d, ".stop")
                                     /\ GoalStatus(d) \in {"building", "planning"}
              /\ ~host.orchestrator_running => files' = files
              /\ ret' = Return("Stop signal sent")
                     => \A d \in dirs : GoalStatus(d) \in {"building", "planning"}
                                            => Join(d, ".stop") \in DOMAIN files'

\* C30: the tracked processes hold at most one orchestrator, and the flag
\* orchestrator_running tells whether they hold one; a start while the flag
\* is set launches nothing; a refresh removes exactly the tracked processes
\* that have exited; a stop changes no tracked process and no flag and
\* writes nothing but .stop files of goals whose status is building or
\* planning.
C30_OneOrchestrator == []C30_AtMostOneOrchestrator /\ [][C30_Handlers]_vars

\* C30 witness: a stop has written the marker of a building goal while the
\* orchestrator, which has exited, and a build are still tracked
C30_Witness ==
    /\ call.op = "action_stop_orchestrator"
    /\ ret = Return("Stop signal sent")
    /\ Join("alpha", ".stop") \in DOMAIN files
    /\ Join("beta", ".stop") \notin DOMAIN files
    /\ Len(host._running_processes) = 2
    /\ \E i \in Orchestrators : host._running_processes[i].process \in host.exited

\* C30 witness: a start is turned down while an orchestrator is tracked
C30_RefusedWitness ==
    /\ call.op = "action_start_orchestrator"
    /\ ret = Return("Orchestrator already running")
    /\ Cardinality(Orchestrators) = 1
    /\ host.spawned < MaxProcesses

====
